---- MODULE Spec2Model ----
(***************************************************************************)
(* A model of the halide register VM: the opcode table, the instruction    *)
(* encoders of the vm and opcodes crates, and the fetch/decode/execute     *)
(* loop of vm::VM.                                                         *)
(*                                                                         *)
(* Machine integers keep their width.  An i32 is an Integer in             *)
(* I32Min..I32Max and every operation that can leave that range is split   *)
(* into an overflow test and a wrapped result.  Values wider than 31 bits  *)
(* (the u32 `remainder`, the usize `pc`) are records [hi, lo] that stand   *)
(* for hi * 2^30 + lo.                                                     *)
(***************************************************************************)
EXTENDS Integers, Sequences, FiniteSets, TLC

VARIABLES
    registers,        \* VM.registers : [i32; 32], indexed 0..31
    pc,               \* VM.pc        : usize
    program,          \* VM.program   : Vec<u8>
    remainder,        \* VM.remainder : u32
    cmp,              \* VM.cmp       : bool
    panicked,         \* a panic has unwound out of the VM: nothing runs after it
    running,          \* control is inside the loop of VM::run
    last,             \* the most recent call of execute_once: state before, opcode, result
    steps,            \* calls of execute_once so far
    run_from,         \* the VM's state when VM::run was last entered
    twin,             \* a second VM built from the same program, called in lockstep
    overflow_checks,  \* build profile: arithmetic overflow panics (TRUE) or wraps (FALSE)
    input,            \* argument handed to an encoding/decoding function
    output            \* what that function returned

vars == <<registers, pc, program, remainder, cmp, panicked, running, last, steps,
          run_from, twin, overflow_checks, input, output>>

(***************************************************************************)
(* Bounds of the model.                                                    *)
(***************************************************************************)
NumOperandRegs == 2
MaxSteps == 16

(***************************************************************************)
(* Machine integers.                                                       *)
(***************************************************************************)
REGISTERS == 32
I32Max == 2147483647
I32Min == (-I32Max) - 1
I16Max == 32767
I16Min == (-I16Max) - 1
B30 == 1073741824

U8 == 0..255
I16 == I16Min..I16Max

RECURSIVE BitAnd(_, _)
\* a & b on non-negative bit patterns
BitAnd(a, b) ==
    IF a = 0 \/ b = 0 THEN 0
    ELSE ((a % 2) * (b % 2)) + 2 * BitAnd(a \div 2, b \div 2)

RECURSIVE BitOr(_, _)
\* a | b on non-negative bit patterns
BitOr(a, b) ==
    IF a = 0 THEN b
    ELSE IF b = 0 THEN a
    ELSE (IF (a % 2) + (b % 2) > 0 THEN 1 ELSE 0) + 2 * BitOr(a \div 2, b \div 2)

\* the 16-bit pattern of an i16, and back
as_u16(v) == v % 65536
as_i16(u) == IF u % 65536 >= 32768 THEN (u % 65536) - 65536 ELSE u % 65536
\* `x as u8`: truncation to the low 8 bits
as_u8(x) == x % 256
\* `a & b` on i16
I16And(a, b) == as_i16(BitAnd(as_u16(a), as_u16(b)))
\* `a >> n` on a signed integer: arithmetic shift
Shr(a, n) == a \div (2 ^ n)

\* rhs + lhs on i32
AddOverflows(a, b) ==
    \/ a > 0 /\ b > 0 /\ b > I32Max - a
    \/ a < 0 /\ b < 0 /\ b < I32Min - a
wrapping_add(a, b) ==
    IF a > 0 /\ b > 0 /\ b > I32Max - a THEN (a + I32Min) + (b + I32Min)
    ELSE IF a < 0 /\ b < 0 /\ b < I32Min - a THEN (a - I32Min) + (b - I32Min)
    ELSE a + b

\* rhs - lhs on i32
SubOverflows(a, b) ==
    \/ a >= 0 /\ b < 0 /\ a > I32Max + b
    \/ a < 0 /\ b > 0 /\ a < I32Min + b
wrapping_sub(a, b) ==
    IF a >= 0 /\ b < 0 /\ a > I32Max + b THEN (a + I32Min) - (b - I32Min)
    ELSE IF a < 0 /\ b > 0 /\ a < I32Min + b THEN (a - I32Min) - (b + I32Min)
    ELSE a - b

\* rhs / lhs and rhs % lhs on i32 (truncating), for b # 0 and not (a = MIN, b = -1)
RECURSIVE TruncDiv(_, _)
TruncDiv(a, b) ==
    IF b > 0 THEN
        IF a < 0 /\ a % b # 0 THEN (a \div b) + 1 ELSE a \div b
    ELSE IF b = I32Min THEN (IF a = I32Min THEN 1 ELSE 0)
    ELSE -TruncDiv(a, -b)

TruncRem(a, b) ==
    IF b = I32Min THEN (IF a = I32Min THEN 0 ELSE a)
    ELSE LET d == IF b > 0 THEN b ELSE -b
             m == a % d
         IN  IF a < 0 /\ m # 0 THEN m - d ELSE m

\* rhs * lhs on i32: schoolbook product of the four bytes, modulo 2^32
ByteOf(x, i) == (x \div (256 ^ i)) % 256
wrapping_mul(a, b) ==
    LET c0 == ByteOf(a, 0) * ByteOf(b, 0)
        c1 == ByteOf(a, 0) * ByteOf(b, 1) + ByteOf(a, 1) * ByteOf(b, 0)
        c2 == ByteOf(a, 0) * ByteOf(b, 2) + ByteOf(a, 1) * ByteOf(b, 1)
              + ByteOf(a, 2) * ByteOf(b, 0)
        c3 == ByteOf(a, 0) * ByteOf(b, 3) + ByteOf(a, 1) * ByteOf(b, 2)
              + ByteOf(a, 2) * ByteOf(b, 1) + ByteOf(a, 3) * ByteOf(b, 0)
        t1 == c1 + (c0 \div 256)
        t2 == c2 + (t1 \div 256)
        t3 == c3 + (t2 \div 256)
        r3 == t3 % 256
    IN  (c0 % 256) + 256 * (t1 % 256) + 65536 * (t2 % 256)
        + 16777216 * (IF r3 >= 128 THEN r3 - 256 ELSE r3)
MulOverflows(a, b) ==
    /\ a # 0
    /\ b # 0
    /\ IF a = -1 THEN b = I32Min
       ELSE LET w == wrapping_mul(a, b)
            IN  ~(TruncRem(w, a) = 0 /\ TruncDiv(w, a) = b)

(***************************************************************************)
(* Wide unsigned values: [hi, lo] stands for hi * 2^30 + lo, 0 <= lo <     *)
(* 2^30.  A u32 has hi in 0..3.  A usize (64 bits) has hi in 0..2^34-1; a  *)
(* negative hi stands for hi + 2^34, which is how the values just below    *)
(* 2^64 that `x as usize` produces from a negative i32 are written.        *)
(***************************************************************************)
Wide(n) == [hi |-> n \div B30, lo |-> n % B30]
\* `x as u32` for an i32 x
as_u32(x) == [hi |-> IF x < 0 THEN (x \div B30) + 4 ELSE x \div B30, lo |-> x % B30]
\* `x as usize` for an i32 x (sign-extending) or a u8
as_usize(x) == [hi |-> x \div B30, lo |-> x % B30]
\* a + b on usize
UsizeAddOverflows(a, b) ==
    LET carry == (a.lo + b.lo) \div B30
    IN  \/ a.hi < 0 /\ b.hi < 0
        \/ a.hi < 0 /\ b.hi >= 0 /\ a.hi + b.hi + carry >= 0
        \/ b.hi < 0 /\ a.hi >= 0 /\ a.hi + b.hi + carry >= 0
usize_wrapping_add(a, b) ==
    [hi |-> a.hi + b.hi + ((a.lo + b.lo) \div B30), lo |-> (a.lo + b.lo) % B30]
\* a < b on usize
UsizeLess(a, b) ==
    IF (a.hi < 0) # (b.hi < 0) THEN b.hi < 0
    ELSE a.hi < b.hi \/ (a.hi = b.hi /\ a.lo < b.lo)
\* a - b on usize
UsizeSubOverflows(a, b) == UsizeLess(a, b)
usize_wrapping_sub(a, b) ==
    [hi |-> a.hi - b.hi - (IF a.lo < b.lo THEN 1 ELSE 0), lo |-> (a.lo - b.lo) % B30]

(***************************************************************************)
(* Opcodes.  vm/src/lib.rs (module opcode) and the opcodes crate hold the  *)
(* same table; vm/src/opcode.rs holds a later one with POW at 6.           *)
(***************************************************************************)
Opcodes == {"HLT", "LOAD", "ADD", "SUB", "MUL", "DIV", "JMP", "JMPF", "JMPB",
            "EQ", "NOT", "GT", "GTQ", "IGL"}

\* vm/src/lib.rs: enum Opcode, `val as u8`
u8_from_Opcode(op) ==
    CASE op = "HLT" -> 0 [] op = "LOAD" -> 1 [] op = "ADD" -> 2 [] op = "SUB" -> 3
      [] op = "MUL" -> 4 [] op = "DIV" -> 5 [] op = "JMP" -> 6 [] op = "JMPF" -> 7
      [] op = "JMPB" -> 8 [] op = "EQ" -> 9 [] op = "NOT" -> 10 [] op = "GT" -> 11
      [] op = "GTQ" -> 12 [] op = "IGL" -> 255

\* fault injection: the first undefined byte decodes to HLT instead of IGL
Opcode_from_u8_13_is_HLT(v) ==
    CASE v = 0 -> "HLT" [] v = 1 -> "LOAD" [] v = 2 -> "ADD" [] v = 3 -> "SUB"
      [] v = 4 -> "MUL" [] v = 5 -> "DIV" [] v = 6 -> "JMP" [] v = 7 -> "JMPF"
      [] v = 8 -> "JMPB" [] v = 9 -> "EQ" [] v = 10 -> "NOT" [] v = 11 -> "GT"
      [] v = 12 -> "GTQ" [] v = 13 -> "HLT" [] OTHER -> "IGL"

\* vm/src/lib.rs: impl From<u8> for Opcode
Opcode_from_u8(v) ==
    CASE v = 0 -> "HLT" [] v = 1 -> "LOAD" [] v = 2 -> "ADD" [] v = 3 -> "SUB"
      [] v = 4 -> "MUL" [] v = 5 -> "DIV" [] v = 6 -> "JMP" [] v = 7 -> "JMPF"
      [] v = 8 -> "JMPB" [] v = 9 -> "EQ" [] v = 10 -> "NOT" [] v = 11 -> "GT"
      [] v = 12 -> "GTQ" [] OTHER -> "IGL"

\* opcodes/src/lib.rs: enum Opcode, `val as u8`
opcodes_u8_from_Opcode(op) ==
    CASE op = "HLT" -> 0 [] op = "LOAD" -> 1 [] op = "ADD" -> 2 [] op = "SUB" -> 3
      [] op = "MUL" -> 4 [] op = "DIV" -> 5 [] op = "JMP" -> 6 [] op = "JMPF" -> 7
      [] op = "JMPB" -> 8 [] op = "EQ" -> 9 [] op = "NOT" -> 10 [] op = "GT" -> 11
      [] op = "GTQ" -> 12 [] op = "IGL" -> 255

\* opcodes/src/lib.rs: impl From<u8> for Opcode
opcodes_Opcode_from_u8(v) ==
    CASE v = 0 -> "HLT" [] v = 1 -> "LOAD" [] v = 2 -> "ADD" [] v = 3 -> "SUB"
      [] v = 4 -> "MUL" [] v = 5 -> "DIV" [] v = 6 -> "JMP" [] v = 7 -> "JMPF"
      [] v = 8 -> "JMPB" [] v = 9 -> "EQ" [] v = 10 -> "NOT" [] v = 11 -> "GT"
      [] v = 12 -> "GTQ" [] OTHER -> "IGL"

\* vm/src/opcode.rs: the table with POW
PowOpcodes == Opcodes \cup {"POW"}
pow_u8_from_Opcode(op) ==
    CASE op = "HLT" -> 0 [] op = "LOAD" -> 1 [] op = "ADD" -> 2 [] op = "SUB" -> 3
      [] op = "MUL" -> 4 [] op = "DIV" -> 5 [] op = "POW" -> 6 [] op = "JMP" -> 7
      [] op = "JMPF" -> 8 [] op = "JMPB" -> 9 [] op = "EQ" -> 10 [] op = "NOT" -> 11
      [] op = "GT" -> 12 [] op = "GTQ" -> 13 [] op = "IGL" -> 255
pow_Opcode_from_u8(v) ==
    CASE v = 0 -> "HLT" [] v = 1 -> "LOAD" [] v = 2 -> "ADD" [] v = 3 -> "SUB"
      [] v = 4 -> "MUL" [] v = 5 -> "DIV" [] v = 6 -> "POW" [] v = 7 -> "JMP"
      [] v = 8 -> "JMPF" [] v = 9 -> "JMPB" [] v = 10 -> "EQ" [] v = 11 -> "NOT"
      [] v = 12 -> "GT" [] v = 13 -> "GTQ" [] OTHER -> "IGL"

(***************************************************************************)
(* Instructions are tuples: <<"Halt">>, <<"Load", r, v>>, <<"Add", r1, r2, *)
(* rd>>, <<"Jump", r>>, <<"Equal", r1, r2>>, ...                           *)
(***************************************************************************)
\* fault injection: the low byte masked with 0x0F
to_le_bytes_low_nibble(v) ==
    <<as_u8(Shr(v, 8)), as_u8(I16And(v, 15))>>

\* vm/src/lib.rs: to_le_bytes; a pair <<first, second>>
to_le_bytes(v) ==
    LET first  == as_u8(Shr(I16And(v, as_i16(65280)), 8))
        second == as_u8(I16And(v, 255))
    IN  <<first, second>>

\* opcodes/src/lib.rs: to_le_bytes
opcodes_to_le_bytes(v) ==
    LET first  == as_u8(Shr(v, 8))
        second == as_u8(I16And(v, 15))
    IN  <<first, second>>

\* vm/src/opcode.rs: to_le_bytes
pow_to_le_bytes(v) ==
    LET first  == as_u8(Shr(I16And(v, as_i16(65280)), 8))
        second == as_u8(I16And(v, 255))
    IN  <<first, second>>

\* vm/src/lib.rs: Instruction::to_bytes
to_bytes(i) ==
    CASE i[1] = "Halt"             -> <<u8_from_Opcode("HLT")>>
      [] i[1] = "Load"             -> <<u8_from_Opcode("LOAD"), i[2],
                                        to_le_bytes(i[3])[1], to_le_bytes(i[3])[2]>>
      [] i[1] = "Add"              -> <<u8_from_Opcode("ADD"), i[2], i[3], i[4]>>
      [] i[1] = "Subtract"         -> <<u8_from_Opcode("SUB"), i[2], i[3], i[4]>>
      [] i[1] = "Multiply"         -> <<u8_from_Opcode("MUL"), i[2], i[3], i[4]>>
      [] i[1] = "Divide"           -> <<u8_from_Opcode("DIV"), i[2], i[3], i[4]>>
      [] i[1] = "Jump"             -> <<u8_from_Opcode("JMP"), i[2]>>
      [] i[1] = "JumpBack"         -> <<u8_from_Opcode("JMPB"), i[2]>>
      [] i[1] = "JumpForward"      -> <<u8_from_Opcode("JMPF"), i[2]>>
      [] i[1] = "Equal"            -> <<u8_from_Opcode("EQ"), i[2], i[3]>>
      [] i[1] = "Not"              -> <<u8_from_Opcode("NOT")>>
      [] i[1] = "GreaterThan"      -> <<u8_from_Opcode("GT"), i[2], i[3]>>
      [] i[1] = "GreaterThanEqual" -> <<u8_from_Opcode("GTQ"), i[2], i[3]>>
      [] i[1] = "Illegal"          -> <<u8_from_Opcode("IGL")>>

\* opcodes/src/lib.rs: Instruction::to_bytes
opcodes_to_bytes(i) ==
    CASE i[1] = "Halt"             -> <<opcodes_u8_from_Opcode("HLT")>>
      [] i[1] = "Load"             -> <<opcodes_u8_from_Opcode("LOAD"), i[2],
                                        opcodes_to_le_bytes(i[3])[1],
                                        opcodes_to_le_bytes(i[3])[2]>>
      [] i[1] = "Add"              -> <<opcodes_u8_from_Opcode("ADD"), i[2], i[3], i[4]>>
      [] i[1] = "Subtract"         -> <<opcodes_u8_from_Opcode("SUB"), i[2], i[3], i[4]>>
      [] i[1] = "Multiply"         -> <<opcodes_u8_from_Opcode("MUL"), i[2], i[3], i[4]>>
      [] i[1] = "Divide"           -> <<opcodes_u8_from_Opcode("DIV"), i[2], i[3], i[4]>>
      [] i[1] = "Jump"             -> <<opcodes_u8_from_Opcode("JMP"), i[2]>>
      [] i[1] = "JumpBack"         -> <<opcodes_u8_from_Opcode("JMPB"), i[2]>>
      [] i[1] = "JumpForward"      -> <<opcodes_u8_from_Opcode("JMPF"), i[2]>>
      [] i[1] = "Equal"            -> <<opcodes_u8_from_Opcode("EQ"), i[2], i[3]>>
      [] i[1] = "Not"              -> <<opcodes_u8_from_Opcode("NOT")>>
      [] i[1] = "GreaterThan"      -> <<opcodes_u8_from_Opcode("GT"), i[2], i[3]>>
      [] i[1] = "GreaterThanEqual" -> <<opcodes_u8_from_Opcode("GTQ"), i[2], i[3]>>
      [] i[1] = "Illegal"          -> <<opcodes_u8_from_Opcode("IGL")>>

\* vm/src/opcode.rs: Instr::to_bytes
pow_to_bytes(i) ==
    CASE i[1] = "Halt" -> <<pow_u8_from_Opcode("HLT")>>
      [] i[1] = "Load" -> <<pow_u8_from_Opcode("LOAD"), i[2],
                            pow_to_le_bytes(i[3])[1], pow_to_le_bytes(i[3])[2]>>
      [] i[1] = "Add" -> <<pow_u8_from_Opcode("ADD"), i[2], i[3], i[4]>>
      [] i[1] = "Subtract" -> <<pow_u8_from_Opcode("SUB"), i[2], i[3], i[4]>>
      [] i[1] = "Multiply" -> <<pow_u8_from_Opcode("MUL"), i[2], i[3], i[4]>>
      [] i[1] = "Divide" -> <<pow_u8_from_Opcode("DIV"), i[2], i[3], i[4]>>
      [] i[1] = "Power" -> <<pow_u8_from_Opcode("POW"), i[2], i[3], i[4]>>
      [] i[1] = "Jump" -> <<pow_u8_from_Opcode("JMP"), i[2]>>
      [] i[1] = "JumpBack" -> <<pow_u8_from_Opcode("JMPB"), i[2]>>
      [] i[1] = "JumpForward" -> <<pow_u8_from_Opcode("JMPF"), i[2]>>
      [] i[1] = "Equal" -> <<pow_u8_from_Opcode("EQ"), i[2], i[3]>>
      [] i[1] = "Not" -> <<pow_u8_from_Opcode("NOT")>>
      [] i[1] = "GreaterThan" -> <<pow_u8_from_Opcode("GT"), i[2], i[3]>>
      [] i[1] = "GreaterThanEqual" -> <<pow_u8_from_Opcode("GTQ"), i[2], i[3]>>
      [] i[1] = "Illegal" -> <<pow_u8_from_Opcode("IGL")>>

RECURSIVE Flatten(_)
\* instrs.into_iter().flat_map(to_bytes).collect(), over byte strings
Flatten(ss) == IF ss = <<>> THEN <<>> ELSE Head(ss) \o Flatten(Tail(ss))

(***************************************************************************)
(* The execution engine, vm/src/lib.rs.  A VM value is the record m =      *)
(* [registers, pc, remainder, cmp]; the program is passed beside it since  *)
(* no step writes it.  A call returns [vm, done, panic]: the state it      *)
(* leaves, the bool it returns, and whether it panicked instead.           *)
(***************************************************************************)
VMState == [registers |-> registers, pc |-> pc, remainder |-> remainder, cmp |-> cmp]

\* VM::default()
Default ==
    [registers |-> [i \in 0..(REGISTERS - 1) |-> 0], pc |-> as_usize(0),
     remainder |-> as_u32(0), cmp |-> FALSE]

Returned(m, done) == [vm |-> m, done |-> done, panic |-> FALSE]
Panic(m) == [vm |-> m, done |-> FALSE, panic |-> TRUE]
Failed(m) == [ok |-> FALSE, val |-> 0, vm |-> m]
Got(m, v) == [ok |-> TRUE, val |-> v, vm |-> m]

\* `self.pc >= self.program.len()`
AtEnd(m, prog) == m.pc.hi # 0 \/ m.pc.lo >= Len(prog)

\* fault injection: the byte is read without moving pc
next_byte_stuck(m, prog) ==
    IF AtEnd(m, prog) THEN Failed(m) ELSE Got(m, prog[m.pc.lo + 1])

\* fault injection: a read past the end of the buffer yields 0
next_byte_zero_padded(m, prog) ==
    Got([m EXCEPT !.pc = usize_wrapping_add(m.pc, as_usize(1))],
        IF AtEnd(m, prog) THEN 0 ELSE prog[m.pc.lo + 1])

\* VM::next_byte: `self.program[self.pc]` panics past the end, else pc += 1
next_byte(m, prog) ==
    IF AtEnd(m, prog) THEN Failed(m)
    ELSE Got([m EXCEPT !.pc = usize_wrapping_add(m.pc, as_usize(1))], prog[m.pc.lo + 1])

\* VM::next_value: (((next_byte as u16) << 8) | next_byte as u16) as i32
next_value(m, prog) ==
    LET hi == next_byte(m, prog)
    IN  IF ~hi.ok THEN Failed(hi.vm)
        ELSE LET lo == next_byte(hi.vm, prog)
             IN  IF ~lo.ok THEN Failed(lo.vm)
                 ELSE Got(lo.vm, BitOr((hi.val * 256) % 65536, lo.val))

\* VM::decode_opcode
decode_opcode(m, prog) ==
    LET b == next_byte(m, prog)
    IN  IF ~b.ok THEN Failed(b.vm) ELSE Got(b.vm, Opcode_from_u8(b.val))

\* `self.registers[self.next_byte() as usize]`: the index is bounds-checked
read_register(m, prog) ==
    LET b == next_byte(m, prog)
    IN  IF ~b.ok THEN Failed(b.vm)
        ELSE IF b.val >= REGISTERS THEN Failed(b.vm)
        ELSE Got(b.vm, b.vm.registers[b.val])

\* fault injection: the destination index reduced modulo the register count
write_register_wrapping(m, dest, val) ==
    Returned([m EXCEPT !.registers[dest % REGISTERS] = val], FALSE)

\* `self.registers[dest] = val`
write_register(m, dest, val) ==
    IF dest >= REGISTERS THEN Panic(m)
    ELSE Returned([m EXCEPT !.registers[dest] = val], FALSE)

\* fault injection: the target is added to pc instead of replacing it
exec_JMP_relative(m, prog, checks) ==
    LET target == read_register(m, prog)
    IN  IF ~target.ok THEN Panic(target.vm)
        ELSE Returned([target.vm EXCEPT
                         !.pc = usize_wrapping_add(target.vm.pc, as_usize(target.val))],
                      FALSE)

\* Opcode::JMP
exec_JMP(m, prog, checks) ==
    LET target == read_register(m, prog)
    IN  IF ~target.ok THEN Panic(target.vm)
        ELSE Returned([target.vm EXCEPT !.pc = as_usize(target.val)], FALSE)

\* fault injection: the displacement is counted from the byte after the opcode
exec_JMPF_from_operand(m, prog, checks) ==
    LET target == read_register(m, prog)
    IN  IF ~target.ok THEN Panic(target.vm)
        ELSE IF checks /\ UsizeAddOverflows(m.pc, as_usize(target.val))
        THEN Panic(target.vm)
        ELSE Returned([target.vm EXCEPT
                         !.pc = usize_wrapping_add(m.pc, as_usize(target.val))],
                      FALSE)

\* Opcode::JMPF
exec_JMPF(m, prog, checks) ==
    LET target == read_register(m, prog)
    IN  IF ~target.ok THEN Panic(target.vm)
        ELSE IF checks /\ UsizeAddOverflows(target.vm.pc, as_usize(target.val))
        THEN Panic(target.vm)
        ELSE Returned([target.vm EXCEPT
                         !.pc = usize_wrapping_add(target.vm.pc, as_usize(target.val))],
                      FALSE)

\* Opcode::JMPB
exec_JMPB(m, prog, checks) ==
    LET target == read_register(m, prog)
    IN  IF ~target.ok THEN Panic(target.vm)
        ELSE IF checks /\ UsizeSubOverflows(target.vm.pc, as_usize(target.val))
        THEN Panic(target.vm)
        ELSE Returned([target.vm EXCEPT
                         !.pc = usize_wrapping_sub(target.vm.pc, as_usize(target.val))],
                      FALSE)

\* Opcode::LOAD
exec_LOAD(m, prog, checks) ==
    LET dest == next_byte(m, prog)
    IN  IF ~dest.ok THEN Panic(dest.vm)
        ELSE LET val == next_value(dest.vm, prog)
             IN  IF ~val.ok THEN Panic(val.vm)
                 ELSE write_register(val.vm, dest.val, val.val)

\* fault injection: the sum is accumulated in the destination register, so the
\* second source is read after the destination was written
exec_ADD_in_place(m, prog, checks) ==
    LET rhs == read_register(m, prog)
    IN  IF ~rhs.ok THEN Panic(rhs.vm)
        ELSE LET lhs == read_register(rhs.vm, prog)
             IN  IF ~lhs.ok THEN Panic(lhs.vm)
                 ELSE LET dest == next_byte(lhs.vm, prog)
                          r2 == prog[lhs.vm.pc.lo]
                      IN  IF ~dest.ok THEN Panic(dest.vm)
                          ELSE LET w == write_register(dest.vm, dest.val, rhs.val)
                               IN  IF w.panic THEN w
                                   ELSE IF checks /\ AddOverflows(rhs.val, w.vm.registers[r2])
                                   THEN Panic(dest.vm)
                                   ELSE write_register(w.vm, dest.val,
                                            wrapping_add(rhs.val, w.vm.registers[r2]))

\* Opcode::ADD
exec_ADD(m, prog, checks) ==
    LET rhs == read_register(m, prog)
    IN  IF ~rhs.ok THEN Panic(rhs.vm)
        ELSE LET lhs == read_register(rhs.vm, prog)
             IN  IF ~lhs.ok THEN Panic(lhs.vm)
                 ELSE LET dest == next_byte(lhs.vm, prog)
                      IN  IF ~dest.ok THEN Panic(dest.vm)
                          ELSE IF checks /\ AddOverflows(rhs.val, lhs.val)
                          THEN Panic(dest.vm)
                          ELSE write_register(dest.vm, dest.val,
                                              wrapping_add(rhs.val, lhs.val))

\* fault injection: the operands of the subtraction swapped
exec_SUB_swapped(m, prog, checks) ==
    LET rhs == read_register(m, prog)
    IN  IF ~rhs.ok THEN Panic(rhs.vm)
        ELSE LET lhs == read_register(rhs.vm, prog)
             IN  IF ~lhs.ok THEN Panic(lhs.vm)
                 ELSE LET dest == next_byte(lhs.vm, prog)
                      IN  IF ~dest.ok THEN Panic(dest.vm)
                          ELSE IF checks /\ SubOverflows(lhs.val, rhs.val)
                          THEN Panic(dest.vm)
                          ELSE write_register(dest.vm, dest.val,
                                              wrapping_sub(lhs.val, rhs.val))

\* Opcode::SUB
exec_SUB(m, prog, checks) ==
    LET rhs == read_register(m, prog)
    IN  IF ~rhs.ok THEN Panic(rhs.vm)
        ELSE LET lhs == read_register(rhs.vm, prog)
             IN  IF ~lhs.ok THEN Panic(lhs.vm)
                 ELSE LET dest == next_byte(lhs.vm, prog)
                      IN  IF ~dest.ok THEN Panic(dest.vm)
                          ELSE IF checks /\ SubOverflows(rhs.val, lhs.val)
                          THEN Panic(dest.vm)
                          ELSE write_register(dest.vm, dest.val,
                                              wrapping_sub(rhs.val, lhs.val))

\* Opcode::MUL
exec_MUL(m, prog, checks) ==
    LET rhs == read_register(m, prog)
    IN  IF ~rhs.ok THEN Panic(rhs.vm)
        ELSE LET lhs == read_register(rhs.vm, prog)
             IN  IF ~lhs.ok THEN Panic(lhs.vm)
                 ELSE LET dest == next_byte(lhs.vm, prog)
                      IN  IF ~dest.ok THEN Panic(dest.vm)
                          ELSE IF checks /\ MulOverflows(rhs.val, lhs.val)
                          THEN Panic(dest.vm)
                          ELSE write_register(dest.vm, dest.val,
                                              wrapping_mul(rhs.val, lhs.val))

\* fault injection: a zero divisor yields quotient 0 and execution goes on
exec_DIV_zero_quotient(m, prog, checks) ==
    LET rhs == read_register(m, prog)
    IN  IF ~rhs.ok THEN Panic(rhs.vm)
        ELSE LET lhs == read_register(rhs.vm, prog)
             IN  IF ~lhs.ok THEN Panic(lhs.vm)
                 ELSE LET dest == next_byte(lhs.vm, prog)
                      IN  IF ~dest.ok THEN Panic(dest.vm)
                          ELSE IF lhs.val = 0 THEN write_register(dest.vm, dest.val, 0)
                          ELSE IF rhs.val = I32Min /\ lhs.val = -1 THEN Panic(dest.vm)
                          ELSE LET w == write_register(dest.vm, dest.val,
                                                       TruncDiv(rhs.val, lhs.val))
                               IN  IF w.panic THEN w
                                   ELSE Returned([w.vm EXCEPT !.remainder =
                                                    as_u32(TruncRem(rhs.val, lhs.val))],
                                                 FALSE)

\* Opcode::DIV: `rhs / lhs` panics on a zero divisor and on MIN / -1 in every
\* build profile
exec_DIV(m, prog, checks) ==
    LET rhs == read_register(m, prog)
    IN  IF ~rhs.ok THEN Panic(rhs.vm)
        ELSE LET lhs == read_register(rhs.vm, prog)
             IN  IF ~lhs.ok THEN Panic(lhs.vm)
                 ELSE LET dest == next_byte(lhs.vm, prog)
                      IN  IF ~dest.ok THEN Panic(dest.vm)
                          ELSE IF lhs.val = 0 THEN Panic(dest.vm)
                          ELSE IF rhs.val = I32Min /\ lhs.val = -1 THEN Panic(dest.vm)
                          ELSE LET w == write_register(dest.vm, dest.val,
                                                       TruncDiv(rhs.val, lhs.val))
                               IN  IF w.panic THEN w
                                   ELSE Returned([w.vm EXCEPT !.remainder =
                                                    as_u32(TruncRem(rhs.val, lhs.val))],
                                                 FALSE)

\* fault injection: Halt clears the register file
exec_HLT_clearing(m, prog, checks) ==
    Returned([m EXCEPT !.registers = Default.registers], TRUE)

\* Opcode::HLT
exec_HLT(m, prog, checks) == Returned(m, TRUE)

\* fault injection: an illegal opcode is skipped
exec_IGL_skipped(m, prog, checks) == Returned(m, FALSE)

\* Opcode::IGL: panic!("Illegal opcode encountered")
exec_IGL(m, prog, checks) == Panic(m)

\* Opcode::EQ
exec_EQ(m, prog, checks) ==
    LET rhs == read_register(m, prog)
    IN  IF ~rhs.ok THEN Panic(rhs.vm)
        ELSE LET lhs == read_register(rhs.vm, prog)
             IN  IF ~lhs.ok THEN Panic(lhs.vm)
                 ELSE Returned([lhs.vm EXCEPT !.cmp = (rhs.val = lhs.val)], FALSE)

\* fault injection: Not also clears the remainder
exec_NOT_clobbering(m, prog, checks) ==
    Returned([m EXCEPT !.cmp = ~m.cmp, !.remainder = as_u32(0)], FALSE)

\* Opcode::NOT
exec_NOT(m, prog, checks) == Returned([m EXCEPT !.cmp = ~m.cmp], FALSE)

\* fault injection: the operands of the comparison swapped
exec_GT_swapped(m, prog, checks) ==
    LET rhs == read_register(m, prog)
    IN  IF ~rhs.ok THEN Panic(rhs.vm)
        ELSE LET lhs == read_register(rhs.vm, prog)
             IN  IF ~lhs.ok THEN Panic(lhs.vm)
                 ELSE Returned([lhs.vm EXCEPT !.cmp = (lhs.val > rhs.val)], FALSE)

\* Opcode::GT
exec_GT(m, prog, checks) ==
    LET rhs == read_register(m, prog)
    IN  IF ~rhs.ok THEN Panic(rhs.vm)
        ELSE LET lhs == read_register(rhs.vm, prog)
             IN  IF ~lhs.ok THEN Panic(lhs.vm)
                 ELSE Returned([lhs.vm EXCEPT !.cmp = (rhs.val > lhs.val)], FALSE)

\* fault injection: GreaterThanEqual consumes a third operand byte
exec_GTQ_three_operands(m, prog, checks) ==
    LET rhs == read_register(m, prog)
    IN  IF ~rhs.ok THEN Panic(rhs.vm)
        ELSE LET lhs == read_register(rhs.vm, prog)
             IN  IF ~lhs.ok THEN Panic(lhs.vm)
                 ELSE LET pad == next_byte(lhs.vm, prog)
                      IN  IF ~pad.ok THEN Panic(pad.vm)
                          ELSE Returned([pad.vm EXCEPT !.cmp = (rhs.val >= lhs.val)],
                                        FALSE)

\* Opcode::GTQ
exec_GTQ(m, prog, checks) ==
    LET rhs == read_register(m, prog)
    IN  IF ~rhs.ok THEN Panic(rhs.vm)
        ELSE LET lhs == read_register(rhs.vm, prog)
             IN  IF ~lhs.ok THEN Panic(lhs.vm)
                 ELSE Returned([lhs.vm EXCEPT !.cmp = (rhs.val >= lhs.val)], FALSE)

\* VM::execute_once
execute_once(m, prog, checks) ==
    IF AtEnd(m, prog) THEN Returned(m, TRUE)
    ELSE LET op == decode_opcode(m, prog)
         IN  CASE op.val = "JMP"  -> exec_JMP(op.vm, prog, checks)
               [] op.val = "JMPF" -> exec_JMPF(op.vm, prog, checks)
               [] op.val = "JMPB" -> exec_JMPB(op.vm, prog, checks)
               [] op.val = "LOAD" -> exec_LOAD(op.vm, prog, checks)
               [] op.val = "ADD"  -> exec_ADD(op.vm, prog, checks)
               [] op.val = "SUB"  -> exec_SUB(op.vm, prog, checks)
               [] op.val = "MUL"  -> exec_MUL(op.vm, prog, checks)
               [] op.val = "DIV"  -> exec_DIV(op.vm, prog, checks)
               [] op.val = "HLT"  -> exec_HLT(op.vm, prog, checks)
               [] op.val = "IGL"  -> exec_IGL(op.vm, prog, checks)
               [] op.val = "EQ"   -> exec_EQ(op.vm, prog, checks)
               [] op.val = "NOT"  -> exec_NOT(op.vm, prog, checks)
               [] op.val = "GT"   -> exec_GT(op.vm, prog, checks)
               [] op.val = "GTQ"  -> exec_GTQ(op.vm, prog, checks)

\* the opcode execute_once decodes in state m, "none" when it returns at once
Fetched(m, prog) == IF AtEnd(m, prog) THEN "none" ELSE decode_opcode(m, prog).val

NoCall == [pre |-> Default, op |-> "none", done |-> FALSE, panic |-> FALSE, by |-> "none"]

\* fault injection: the loop of run() ends after its first turn
Continues_never(by, r) == FALSE

\* `while !done` in VM::run: the loop takes another turn; step() has no loop
Continues(by, r) == by = "run" /\ ~r.done /\ ~r.panic

\* fault injection: whether an overflow panics is settled at each call, not
\* once by the build
Outcomes_any_profile(m) == {execute_once(m, program, c) : c \in BOOLEAN}

\* the outcomes a call of execute_once can have in state m: it reads nothing
\* but the VM and has no choice beyond the build profile, so there is one
Outcomes(m) == {execute_once(m, program, overflow_checks)}

\* one call of execute_once on the VM, from step() or from the loop of run()
Execute(by) ==
    LET r == execute_once(VMState, program, overflow_checks)
    IN  /\ steps < MaxSteps
        /\ steps' = steps + 1
        /\ registers' = r.vm.registers
        /\ pc' = r.vm.pc
        /\ remainder' = r.vm.remainder
        /\ cmp' = r.vm.cmp
        /\ panicked' = (panicked \/ r.panic)
        /\ running' = Continues(by, r)
        /\ last' = [pre |-> VMState, op |-> Fetched(VMState, program),
                    done |-> r.done, panic |-> r.panic, by |-> by]
        /\ twin' \in Outcomes(twin.vm)
        /\ UNCHANGED <<program, run_from, overflow_checks, input, output>>

\* VM::step
step ==
    /\ ~panicked
    /\ ~running
    /\ Execute("step")

\* VM::run is entered: `let mut done = false`
run ==
    /\ ~panicked
    /\ ~running
    /\ running' = TRUE
    /\ run_from' = VMState
    /\ UNCHANGED <<registers, pc, program, remainder, cmp, panicked, last, steps,
                   twin, overflow_checks, input, output>>

\* VM::run, one turn of `while !done { done = self.execute_once() }`
run_loop ==
    /\ ~panicked
    /\ running
    /\ Execute("run")

(***************************************************************************)
(* The compiler's lowering (compiler/src/lib.rs).  An expression is a      *)
(* tuple <<"Int", v>>, <<"Negate", e>> or <<Op, a, b>> with Op one of Add, *)
(* Sub, Mul, Div, Pow.  Registers are u8: `next_register + 1` overflows at *)
(* 255, which panics in a build with overflow checks and wraps to 0 in one *)
(* without.  A call returns [panic, val].                                  *)
(***************************************************************************)
BinOps == {"Add", "Sub", "Mul", "Div", "Pow"}
\* the instruction the arm of each operator pushes
OpInstr(op) ==
    CASE op = "Add" -> "Add"
      [] op = "Sub" -> "Subtract"
      [] op = "Mul" -> "Multiply"
      [] op = "Div" -> "Divide"
      [] op = "Pow" -> "Power"
Compiled(instrs) == [panic |-> FALSE, val |-> instrs]
CompilePanic == [panic |-> TRUE, val |-> <<>>]
\* fault injection: the addition is lost
u8_add_dropped(a, b) == a % 256
u8_wrapping_add(a, b) == (a + b) % 256
u8_wrapping_sub(a, b) == (a - b) % 256

RECURSIVE compile_expr_right_in_place(_, _, _)
\* fault injection: the right operand is lowered at the base of the left one
compile_expr_right_in_place(expr, next_register, checks) ==
    IF expr[1] = "Int" THEN Compiled(<< <<"Load", next_register, expr[2]>> >>)
    ELSE IF expr[1] = "Negate" THEN
        LET x == compile_expr_right_in_place(expr[2], next_register, checks)
        IN  IF x.panic THEN CompilePanic
            ELSE IF checks /\ next_register + 1 > 255 THEN CompilePanic
            ELSE Compiled(x.val \o
                     << <<"Load", u8_wrapping_add(next_register, 1), -1>>,
                        <<"Multiply", next_register, u8_wrapping_add(next_register, 1),
                          next_register>> >>)
    ELSE
        LET a == compile_expr_right_in_place(expr[2], next_register, checks)
            b == compile_expr_right_in_place(expr[3], next_register, checks)
        IN  IF a.panic \/ b.panic THEN CompilePanic
            ELSE Compiled(a.val \o b.val \o
                     << <<OpInstr(expr[1]), next_register, next_register,
                          next_register>> >>)

RECURSIVE compile_expr(_, _, _)
\* compiler/src/lib.rs: compile_expr
compile_expr(expr, next_register, checks) ==
    IF expr[1] = "Int" THEN Compiled(<< <<"Load", next_register, expr[2]>> >>)
    ELSE IF expr[1] = "Negate" THEN
        LET x == compile_expr(expr[2], next_register, checks)
        IN  IF x.panic THEN CompilePanic
            ELSE IF checks /\ next_register + 1 > 255 THEN CompilePanic
            ELSE Compiled(x.val \o
                     << <<"Load", u8_wrapping_add(next_register, 1), -1>>,
                        <<"Multiply", next_register, u8_wrapping_add(next_register, 1),
                          next_register>> >>)
    ELSE
        LET a == compile_expr(expr[2], next_register, checks)
            \* `next_register += 1`
            bumped == u8_wrapping_add(next_register, 1)
        IN  IF a.panic THEN CompilePanic
            ELSE IF checks /\ next_register + 1 > 255 THEN CompilePanic
            ELSE LET b == compile_expr(expr[3], bumped, checks)
                 IN  IF b.panic THEN CompilePanic
                     \* `next_register - 1`
                     ELSE IF checks /\ bumped - 1 < 0 THEN CompilePanic
                     ELSE Compiled(a.val \o b.val \o
                              << <<OpInstr(expr[1]), u8_wrapping_sub(bumped, 1), bumped,
                                   u8_wrapping_sub(bumped, 1)>> >>)

(***************************************************************************)
(* The programs the VM is constructed with.  A test program is a prologue  *)
(* that brings registers 0 and 1 to chosen values, one instruction, and a  *)
(* trailing Not that shows whether execution went on.                      *)
(***************************************************************************)
Zero == REGISTERS - 1
Scratch == REGISTERS - 2
RegVals == {0, 2, 7, -7, -1, I32Max, I32Min}
I16Sample == {I16Min, I16Min + 1, -257, -256, -255, -17, -16, -2, -1, 0, 1, 2, 7,
              15, 16, 17, 255, 256, 257, I16Max}

\* instructions that leave x in register k of a VM whose registers k, Zero
\* and Scratch hold 0 (Load zero-extends, so 32768..65535 are loaded directly)
Recipe(k, x) ==
    IF x = 0 THEN <<>>
    ELSE IF x = I32Max THEN
        << <<"Load", k, I16Min>>, <<"Load", Scratch, -1>>, <<"Multiply", k, Scratch, k>>,
           <<"Load", Scratch, I16Max>>, <<"Add", k, Scratch, k>>,
           <<"Subtract", Scratch, Scratch, Scratch>> >>
    ELSE IF x = I32Min THEN
        << <<"Load", k, I16Min>>, <<"Subtract", Zero, k, k>>, <<"Load", Scratch, 256>>,
           <<"Multiply", k, Scratch, k>>, <<"Multiply", k, Scratch, k>>,
           <<"Subtract", Scratch, Scratch, Scratch>> >>
    ELSE IF x > 0 THEN << <<"Load", k, as_i16(x)>> >>
    ELSE << <<"Load", k, as_i16(-x)>>, <<"Subtract", Zero, k, k>> >>

Prologue(x, y) == Recipe(0, x) \o Recipe(1, y)

\* the bytes of a list of instructions, as vm's encoder writes them
Encode(instrs) == Flatten([j \in 1..Len(instrs) |-> to_bytes(instrs[j])])

SrcRegs == 0..(NumOperandRegs - 1)
DstRegs == 0..NumOperandRegs
BadRegs == {REGISTERS, 255}
ArithTags == {"Add", "Subtract", "Multiply", "Divide"}
CmpTags == {"Equal", "GreaterThan", "GreaterThanEqual"}
JumpTags == {"Jump", "JumpForward", "JumpBack"}

TestInstrs ==
    {<<t, r1, r2, rd>> : t \in ArithTags, r1 \in SrcRegs, r2 \in SrcRegs, rd \in DstRegs}
    \cup {<<t, r1, r2>> : t \in CmpTags, r1 \in SrcRegs, r2 \in SrcRegs}
    \cup {<<t, r>> : t \in JumpTags, r \in SrcRegs}
    \cup {<<"Load", r, v>> : r \in DstRegs, v \in {-1, 5}}
    \cup {<<"Halt">>, <<"Not">>, <<"Illegal">>}

BadRegInstrs ==
    {<<t, b, 1, 2>> : t \in ArithTags, b \in BadRegs}
    \cup {<<t, 0, b, 2>> : t \in ArithTags, b \in BadRegs}
    \cup {<<t, 0, 1, b>> : t \in ArithTags, b \in BadRegs}
    \cup {<<t, b, 1>> : t \in CmpTags, b \in BadRegs}
    \cup {<<t, 0, b>> : t \in CmpTags, b \in BadRegs}
    \cup {<<t, b>> : t \in JumpTags, b \in BadRegs}
    \cup {<<"Load", b, 5>> : b \in BadRegs}

TestPrograms ==
    {Encode(Prologue(x, y) \o <<i, <<"Not">> >>) : x \in RegVals, y \in RegVals,
                                                    i \in TestInstrs}
BadRegPrograms == {Encode(Prologue(7, 2) \o <<i, <<"Not">> >>) : i \in BadRegInstrs}
LoadPrograms == {to_bytes(<<"Load", r, v>>) : r \in 0..(REGISTERS - 1), v \in I16Sample}
RawPrograms == {Encode(Prologue(7, 2)) \o <<b, 0, 1, 2>> \o Encode(<< <<"Not">> >>) : b \in U8}

\* a comparison or a Not stepped with cmp already set by a leading Not
FlagInstrs ==
    {<<t, r1, r2>> : t \in CmpTags, r1 \in SrcRegs, r2 \in SrcRegs} \cup {<<"Not">>}
FlagPrograms ==
    {Encode(Prologue(x, y) \o << <<"Not">>, i, <<"Not">> >>) :
        x \in {2, 7, -7}, y \in {2, 7, -7}, i \in FlagInstrs}
\* a Power instruction as vm/src/opcode.rs encodes it, after a prologue
PowEncode(instrs) == Flatten([j \in 1..Len(instrs) |-> pow_to_bytes(instrs[j])])
PowerPrograms ==
    {PowEncode(Prologue(x, y) \o << <<"Power", r1, r2, rd>> >>) :
        x \in {2, 7, -7}, y \in {0, 2, -1}, r1 \in SrcRegs, r2 \in SrcRegs,
        rd \in DstRegs}

\* compiler/src/main.rs, parse_input_to_bytes: the bytes of a compiled negation
NegatedExprs ==
    {<<"Int", x>> : x \in {0, 2, 7}}
    \cup {<<op, <<"Int", 2>>, <<"Int", 3>> >> : op \in {"Add", "Mul"}}
NegatePrograms == {PowEncode(compile_expr(<<"Negate", e>>, 0, FALSE).val) : e \in NegatedExprs}

\* a buffer that ends inside the operand bytes of its last instruction
TruncatedInstrs ==
    {<<t, 0, 1, 2>> : t \in ArithTags} \cup {<<t, 0, 1>> : t \in CmpTags}
    \cup {<<t, 0>> : t \in JumpTags} \cup {<<"Load", 0, 5>>, <<"Load", 2, 257>>}
TruncatedPrograms ==
    UNION {{Encode(Prologue(7, 2)) \o SubSeq(to_bytes(i), 1, n) :
               n \in 1..(Len(to_bytes(i)) - 1)} : i \in TruncatedInstrs}

\* sequences of encoded instructions with their registers below 32, run from
\* the first byte
EncodedInstrs ==
    {<<"Load", 0, 7>>, <<"Load", 1, 2>>, <<"Load", REGISTERS - 1, 300>>,
     <<"Add", 0, 1, 2>>, <<"Subtract", 1, 0, REGISTERS - 1>>, <<"Multiply", 0, 0, 0>>,
     <<"Divide", 0, 1, 2>>, <<"Equal", 0, 1>>, <<"GreaterThan", 1, 0>>,
     <<"GreaterThanEqual", REGISTERS - 1, REGISTERS - 1>>, <<"Not">>}
EncodedSequences ==
    {<<i>> : i \in EncodedInstrs}
    \cup {<<i, j>> : i \in EncodedInstrs, j \in EncodedInstrs}
    \cup {<<i, j, k>> : i \in EncodedInstrs, j \in EncodedInstrs,
                         k \in {<<"Divide", 0, 1, 2>>, <<"Load", REGISTERS - 1, 300>>,
                                <<"Not">>}}

Programs ==
    TestPrograms \cup BadRegPrograms \cup LoadPrograms \cup RawPrograms
    \cup FlagPrograms \cup PowerPrograms \cup NegatePrograms \cup TruncatedPrograms

(***************************************************************************)
(* The VM under a host that calls step() and run().                        *)
(***************************************************************************)
Init ==
    /\ \/ program \in Programs /\ input = <<>>
       \/ \E instrs \in EncodedSequences :
              program = Encode(instrs) /\ input = <<"encoded", instrs>>
    /\ registers = Default.registers
    /\ pc = Default.pc
    /\ remainder = Default.remainder
    /\ cmp = Default.cmp
    /\ overflow_checks \in BOOLEAN
    /\ panicked = FALSE
    /\ running = FALSE
    /\ last = NoCall
    /\ steps = 0
    /\ run_from = Default
    /\ twin = Returned(Default, FALSE)
    /\ output = <<>>

Next == step \/ run \/ run_loop

Spec == Init /\ [][Next]_vars

(***************************************************************************)
(* The encoding and decoding functions applied to an argument: `input` is  *)
(* the argument, `output` what the function of each crate returns for it.  *)
(***************************************************************************)
ByteSample == {0, 1, 2, REGISTERS - 1, REGISTERS, 255}

CodecInstrs ==
    {<<t, r1, r2, rd>> : t \in ArithTags, r1 \in ByteSample, r2 \in ByteSample,
                         rd \in ByteSample}
    \cup {<<t, r1, r2>> : t \in CmpTags, r1 \in ByteSample, r2 \in ByteSample}
    \cup {<<t, r>> : t \in JumpTags, r \in U8}
    \cup {<<"Load", r, v>> : r \in ByteSample, v \in I16Sample}
    \cup {<<"Halt">>, <<"Not">>, <<"Illegal">>}

CodecInputs ==
    {<<"byte", b>> : b \in U8}
    \cup {<<"opcode", op>> : op \in PowOpcodes}
    \cup {<<"value", v>> : v \in I16}
    \cup {<<"instr", i>> : i \in CodecInstrs}

\* Opcode::from(b) in each crate
decode ==
    /\ input[1] = "byte"
    /\ output = <<>>
    /\ output' = [vm |-> Opcode_from_u8(input[2]),
                  opcodes |-> opcodes_Opcode_from_u8(input[2]),
                  pow |-> pow_Opcode_from_u8(input[2])]
    /\ UNCHANGED <<registers, pc, program, remainder, cmp, panicked, running, last,
                   steps, run_from, twin, overflow_checks, input>>

\* Opcode::from(u8::from(op)) in each crate that has op
round_trip ==
    /\ input[1] = "opcode"
    /\ output = <<>>
    /\ output' = [vm |-> IF input[2] \in Opcodes
                         THEN Opcode_from_u8(u8_from_Opcode(input[2])) ELSE "absent",
                  opcodes |-> IF input[2] \in Opcodes
                              THEN opcodes_Opcode_from_u8(opcodes_u8_from_Opcode(input[2]))
                              ELSE "absent",
                  pow |-> pow_Opcode_from_u8(pow_u8_from_Opcode(input[2]))]
    /\ UNCHANGED <<registers, pc, program, remainder, cmp, panicked, running, last,
                   steps, run_from, twin, overflow_checks, input>>

\* to_le_bytes(v) in each crate
split ==
    /\ input[1] = "value"
    /\ output = <<>>
    /\ output' = [vm |-> to_le_bytes(input[2]), opcodes |-> opcodes_to_le_bytes(input[2]),
                  pow |-> pow_to_le_bytes(input[2])]
    /\ UNCHANGED <<registers, pc, program, remainder, cmp, panicked, running, last,
                   steps, run_from, twin, overflow_checks, input>>

\* i.to_bytes() in each crate
encode ==
    /\ input[1] = "instr"
    /\ output = <<>>
    /\ output' = [vm |-> to_bytes(input[2]), opcodes |-> opcodes_to_bytes(input[2])]
    /\ UNCHANGED <<registers, pc, program, remainder, cmp, panicked, running, last,
                   steps, run_from, twin, overflow_checks, input>>

InitCodec ==
    /\ input \in CodecInputs
    /\ output = <<>>
    /\ program = <<>>
    /\ registers = Default.registers
    /\ pc = Default.pc
    /\ remainder = Default.remainder
    /\ cmp = Default.cmp
    /\ overflow_checks = FALSE
    /\ panicked = FALSE
    /\ running = FALSE
    /\ last = NoCall
    /\ steps = 0
    /\ run_from = Default
    /\ twin = Returned(Default, FALSE)

NextCodec == decode \/ round_trip \/ split \/ encode

SpecCodec == InitCodec /\ [][NextCodec]_vars

(***************************************************************************)
(* C1.  Opcode decoding is total and round-trips: every byte decodes to a  *)
(* tag of the enum; a byte that is no opcode's value decodes to IGL; and   *)
(* decoding the byte of an opcode gives that opcode back.  Stated for the  *)
(* three tables (vm/src/lib.rs, opcodes, vm/src/opcode.rs).                *)
(***************************************************************************)
DefinedBytes == {u8_from_Opcode(op) : op \in Opcodes}
PowDefinedBytes == {pow_u8_from_Opcode(op) : op \in PowOpcodes}

C1_DecodeTotalRoundTrip ==
    /\ (input[1] = "byte" /\ output # <<>>) =>
          /\ output.vm \in Opcodes
          /\ output.opcodes \in Opcodes
          /\ output.pow \in PowOpcodes
          /\ input[2] \notin DefinedBytes => (output.vm = "IGL" /\ output.opcodes = "IGL")
          /\ input[2] \notin PowDefinedBytes => output.pow = "IGL"
    /\ (input[1] = "opcode" /\ output # <<>>) =>
          /\ input[2] \in Opcodes => (output.vm = input[2] /\ output.opcodes = input[2])
          /\ output.pow = input[2]

\* an undefined byte has been decoded, and IGL itself has made the round trip
C1_Witness ==
    \/ input = <<"byte", 200>> /\ output # <<>> /\ output.vm = "IGL"
    \/ input = <<"opcode", "IGL">> /\ output # <<>> /\ output.vm = "IGL"

(***************************************************************************)
(* C2.  Instruction::to_bytes follows the fixed layout, in the vm crate    *)
(* and in the opcodes crate: byte 0 is the opcode, then the operands in    *)
(* the instruction's order, Load's immediate as high byte, low byte.       *)
(***************************************************************************)
OpcodeOf(tag) ==
    CASE tag = "Halt" -> "HLT" [] tag = "Load" -> "LOAD" [] tag = "Add" -> "ADD"
      [] tag = "Subtract" -> "SUB" [] tag = "Multiply" -> "MUL" [] tag = "Divide" -> "DIV"
      [] tag = "Jump" -> "JMP" [] tag = "JumpForward" -> "JMPF" [] tag = "JumpBack" -> "JMPB"
      [] tag = "Equal" -> "EQ" [] tag = "Not" -> "NOT" [] tag = "GreaterThan" -> "GT"
      [] tag = "GreaterThanEqual" -> "GTQ" [] tag = "Illegal" -> "IGL"
HighByte(v) == (v % 65536) \div 256
LowByte(v) == v % 256
Layout(i) ==
    IF i[1] = "Load" THEN <<u8_from_Opcode("LOAD"), i[2], HighByte(i[3]), LowByte(i[3])>>
    ELSE <<u8_from_Opcode(OpcodeOf(i[1]))>> \o SubSeq(i, 2, Len(i))

C2_ToBytesLayout ==
    (input[1] = "instr" /\ input[2][1] # "Illegal" /\ output # <<>>) =>
        /\ output.vm = Layout(input[2])
        /\ output.opcodes = Layout(input[2])

(***************************************************************************)
(* C4.  In the opcodes crate to_le_bytes(v) is (high byte, low byte) of    *)
(* the 16-bit two's-complement form of v, for every i16 v.                 *)
(***************************************************************************)
C4_OpcodesSplit ==
    (input[1] = "value" /\ output # <<>>) =>
        /\ output.opcodes = <<HighByte(input[2]), LowByte(input[2])>>
        /\ output.opcodes[1] * 256 + output.opcodes[2] = input[2] % 65536

(***************************************************************************)
(* C5.  In the vm crate (vm/src/lib.rs and vm/src/opcode.rs) to_le_bytes   *)
(* is (high byte, low byte) of the 16-bit two's-complement form of v:      *)
(* two bytes with first*256 + second = v mod 65536, for every i16 v.       *)
(***************************************************************************)
C5_VmSplit ==
    (input[1] = "value" /\ output # <<>>) =>
        /\ output.vm \in U8 \X U8
        /\ output.vm[1] * 256 + output.vm[2] = input[2] % 65536
        /\ output.pow \in U8 \X U8
        /\ output.pow[1] * 256 + output.pow[2] = input[2] % 65536

\* a negative value whose low byte is >= 16 has been split
C5_Witness == input = <<"value", -17>> /\ output # <<>> /\ output.vm = <<255, 239>>

(***************************************************************************)
(* The most recent call of execute_once, as the claims about one step read *)
(* it: the state before is last.pre, the state after is the current one.   *)
(***************************************************************************)
\* the k-th byte after the opcode byte of the instruction last executed
Operand(k) == program[last.pre.pc.lo + 1 + k]
HasOperands(n) == last.op # "none" /\ last.pre.pc.lo + 1 + n <= Len(program)
\* pc has moved n bytes past the opcode byte's offset
PcAdvanced(n) == pc = [hi |-> 0, lo |-> last.pre.pc.lo + n]
RegistersKept == registers = last.pre.registers
FlagsKept == cmp = last.pre.cmp /\ remainder = last.pre.remainder
\* x is the value of the u32 w
U32Is(w, x) == x >= 0 /\ w = Wide(x)

(***************************************************************************)
(* C3.  Load round-trips through encode and execute: running the 4 bytes   *)
(* of to_bytes(Load(r, v)) on a fresh VM leaves registers[r] = v, for      *)
(* every register r and every i16 v, negative v included.                  *)
(***************************************************************************)
C3_LoadRoundTrip ==
    (Len(program) = 4 /\ steps >= 1) =>
        \A r \in 0..(REGISTERS - 1), v \in I16Sample :
            program = to_bytes(<<"Load", r, v>>) => (~panicked /\ registers[r] = v)

(***************************************************************************)
(* C6.  One step of Add, Subtract or Multiply with operand bytes (r1, r2,  *)
(* rd) below 32 sets registers[rd] to registers[r1] + / - / *              *)
(* registers[r2], advances pc by 4 and changes no other register.          *)
(* C6_ArithExact states it for every operand value; C6_ArithWithinI32      *)
(* states it for results that fit an i32 and says what overflow does.      *)
(***************************************************************************)
ArithStepped ==
    /\ last.op \in {"ADD", "SUB", "MUL"}
    /\ HasOperands(3)
    /\ \A k \in 1..3 : Operand(k) < REGISTERS
Left == last.pre.registers[Operand(1)]
Right == last.pre.registers[Operand(2)]
\* x is the exact integer result of a op b
IsResult(op, x, a, b) ==
    CASE op = "ADD" -> ~AddOverflows(a, b) /\ x = a + b
      [] op = "SUB" -> ~SubOverflows(a, b) /\ x = a - b
      [] op = "MUL" -> ~MulOverflows(a, b) /\ x = a * b
DoesOverflow(op, a, b) ==
    CASE op = "ADD" -> AddOverflows(a, b)
      [] op = "SUB" -> SubOverflows(a, b)
      [] op = "MUL" -> MulOverflows(a, b)
Wrapped(op, a, b) ==
    CASE op = "ADD" -> wrapping_add(a, b)
      [] op = "SUB" -> wrapping_sub(a, b)
      [] op = "MUL" -> wrapping_mul(a, b)
OthersKept(rd) ==
    \A i \in 0..(REGISTERS - 1) : i # rd => registers[i] = last.pre.registers[i]

C6_ArithExact ==
    ArithStepped =>
        /\ ~last.panic
        /\ IsResult(last.op, registers[Operand(3)], Left, Right)
        /\ PcAdvanced(4)
        /\ OthersKept(Operand(3))

C6_ArithWithinI32 ==
    ArithStepped =>
        IF ~DoesOverflow(last.op, Left, Right)
        THEN /\ ~last.panic
             /\ IsResult(last.op, registers[Operand(3)], Left, Right)
             /\ PcAdvanced(4)
             /\ OthersKept(Operand(3))
        ELSE IF overflow_checks
        THEN last.panic /\ RegistersKept
        ELSE /\ ~last.panic
             /\ registers[Operand(3)] = Wrapped(last.op, Left, Right)
             /\ PcAdvanced(4)
             /\ OthersKept(Operand(3))

\* 7 - 2 has been computed into a third register
C6_Witness ==
    /\ ArithStepped
    /\ last.op = "SUB"
    /\ Left = 7 /\ Right = 2
    /\ Operand(3) \notin {Operand(1), Operand(2)}
    /\ registers[Operand(3)] = 5

(***************************************************************************)
(* C7.  One step of Divide(r1, r2, rd) with registers[r2] # 0 stores the   *)
(* truncated quotient in registers[rd] and the remainder in `remainder`,   *)
(* with quotient * divisor + remainder = dividend, for every dividend.     *)
(***************************************************************************)
DivStepped ==
    /\ last.op = "DIV"
    /\ HasOperands(3)
    /\ \A k \in 1..3 : Operand(k) < REGISTERS
    /\ Right # 0

C7_DivIdentity ==
    DivStepped =>
        /\ ~last.panic
        /\ registers[Operand(3)] = TruncDiv(Left, Right)
        /\ U32Is(remainder, Left - registers[Operand(3)] * Right)

(***************************************************************************)
(* C8.  Division by zero is fatal at the instant it occurs: the Divide     *)
(* step panics, it has written no register, nor `remainder`, nor `cmp`,    *)
(* and after a panic no later instruction is executed.                     *)
(***************************************************************************)
C8_DivByZeroFatal ==
    /\ (/\ last.op = "DIV"
        /\ HasOperands(3)
        /\ \A k \in 1..3 : Operand(k) < REGISTERS
        /\ Right = 0)
       => (last.panic /\ panicked /\ ~running /\ RegistersKept /\ FlagsKept)
    /\ panicked => last.panic

\* inside run(), 7 has been divided by a register holding 0
C8_Witness ==
    /\ last.op = "DIV"
    /\ last.by = "run"
    /\ HasOperands(3)
    /\ \A k \in 1..3 : Operand(k) < REGISTERS
    /\ Left = 7 /\ Right = 0
    /\ panicked

(***************************************************************************)
(* C9.  An illegal opcode is fatal: when the byte fetched as an opcode is  *)
(* not the value of an executable opcode, the step panics, it has not      *)
(* changed registers, cmp or remainder, and nothing is executed after it.  *)
(***************************************************************************)
ExecutableBytes == {u8_from_Opcode(op) : op \in Opcodes \ {"IGL"}}
FetchedByte == program[last.pre.pc.lo + 1]

C9_IllegalFatal ==
    /\ (last.op # "none" /\ FetchedByte \notin ExecutableBytes)
       => (last.panic /\ panicked /\ ~running /\ RegistersKept /\ FlagsKept)
    /\ panicked => last.panic

\* byte 13, the first undefined one, has been fetched with 7 and 2 in the registers
C9_Witness ==
    /\ last.op # "none"
    /\ FetchedByte = 13
    /\ last.pre.registers[0] = 7
    /\ panicked

(***************************************************************************)
(* C10.  A register operand byte >= 32 is fatal for every instruction that *)
(* takes register operands: the step panics, the index is not reduced      *)
(* modulo 32, and no register is written.                                  *)
(***************************************************************************)
RegisterOperands(op) ==
    CASE op \in {"ADD", "SUB", "MUL", "DIV"} -> 3
      [] op \in {"EQ", "GT", "GTQ"} -> 2
      [] op \in {"JMP", "JMPF", "JMPB", "LOAD"} -> 1
      [] OTHER -> 0
\* the bytes the instruction needs after its opcode byte
OperandBytes(op) == IF op = "LOAD" THEN 3 ELSE RegisterOperands(op)
BadRegisterStepped ==
    /\ HasOperands(OperandBytes(last.op))
    /\ \E k \in 1..RegisterOperands(last.op) : Operand(k) >= REGISTERS

C10_BadRegisterFatal ==
    BadRegisterStepped => (last.panic /\ panicked /\ RegistersKept)

\* an Add whose destination byte is 32 has been stepped with 7 and 2 as sources
C10_Witness ==
    /\ BadRegisterStepped
    /\ last.op = "ADD"
    /\ Operand(3) = REGISTERS
    /\ Left = 7 /\ Right = 2
    /\ panicked

(***************************************************************************)
(* C11.  Arithmetic instructions read both source registers before writing *)
(* the destination: when rd is r1 or r2, the value written to rd is the    *)
(* operation applied to the values r1 and r2 held before the step.         *)
(***************************************************************************)
AliasStepped ==
    /\ last.op \in {"ADD", "SUB", "MUL", "DIV"}
    /\ HasOperands(3)
    /\ \A k \in 1..3 : Operand(k) < REGISTERS
    /\ Operand(3) \in {Operand(1), Operand(2)}
    /\ ~last.panic

C11_AliasedDestination ==
    AliasStepped =>
        IF last.op = "DIV" THEN registers[Operand(3)] = TruncDiv(Left, Right)
        ELSE /\ registers[Operand(3)] = Wrapped(last.op, Left, Right)
             /\ ~DoesOverflow(last.op, Left, Right)
                    => IsResult(last.op, registers[Operand(3)], Left, Right)

\* Add(0, 1, 1) has been stepped with 7 and 2 in registers 0 and 1
C11_Witness ==
    /\ AliasStepped
    /\ last.op = "ADD"
    /\ Operand(3) = Operand(2) /\ Operand(1) # Operand(2)
    /\ Left = 7 /\ Right = 2
    /\ registers[Operand(3)] = 9

(***************************************************************************)
(* C12.  Comparison and flag semantics: cmp is false on a fresh VM; a step *)
(* of Equal, GreaterThan or GreaterThanEqual with operands (r1, r2) sets   *)
(* cmp to registers[r1] = / > / >= registers[r2], whatever cmp held        *)
(* before; a step of Not negates cmp, so two consecutive Not steps restore *)
(* it.                                                                     *)
(***************************************************************************)
CmpStepped ==
    /\ last.op \in {"EQ", "GT", "GTQ"}
    /\ HasOperands(2)
    /\ \A k \in 1..2 : Operand(k) < REGISTERS
Compared(op, a, b) ==
    CASE op = "EQ" -> a = b
      [] op = "GT" -> a > b
      [] op = "GTQ" -> a >= b
FlagAfterStep ==
    /\ steps = 0 => ~cmp
    /\ CmpStepped => (~last.panic /\ cmp = Compared(last.op, Left, Right))
    /\ last.op = "NOT" => (~last.panic /\ cmp = ~last.pre.cmp)
\* the second of two consecutive Not steps
NotAfterNot == last.op = "NOT" /\ steps' = steps + 1 /\ last'.op = "NOT"

C12_Flag == []FlagAfterStep /\ [][NotAfterNot => cmp' = last.pre.cmp]_vars

\* GreaterThan(r1, r2) has been stepped with cmp set, 2 in r1 and 7 in r2
C12_Witness ==
    /\ CmpStepped
    /\ last.op = "GT"
    /\ last.pre.cmp
    /\ Left = 2 /\ Right = 7
    /\ ~cmp

(***************************************************************************)
(* C13.  A step of Jump(r) sets pc to the value held in registers[r] as an *)
(* absolute byte offset, wherever the jump itself is, and leaves all       *)
(* registers, cmp and remainder unchanged; if that value is >=             *)
(* len(program), the next step reports Halted without executing anything   *)
(* and without a fault.                                                    *)
(* C13_JumpAbsolute states it for every register value; C13_JumpAsUsize    *)
(* states it for non-negative values and says what a negative one does.    *)
(***************************************************************************)
JumpStepped(op) ==
    /\ last.op = op
    /\ HasOperands(1)
    /\ Operand(1) < REGISTERS
Target == last.pre.registers[Operand(1)]
\* x is the value of the usize w
UsizeIs(w, x) == x >= 0 /\ w = Wide(x)
\* the call that follows is one that returns true at once and touches nothing
NextReportsHalted ==
    steps' = steps + 1 =>
        /\ last'.op = "none" /\ last'.done /\ ~last'.panic
        /\ UNCHANGED <<registers, pc, cmp, remainder>>

C13_JumpAbsolute ==
    /\ [](JumpStepped("JMP") =>
            /\ ~last.panic
            /\ UsizeIs(pc, Target)
            /\ RegistersKept /\ FlagsKept)
    /\ [][(JumpStepped("JMP") /\ Target >= Len(program)) => NextReportsHalted]_vars

C13_JumpAsUsize ==
    /\ [](JumpStepped("JMP") =>
            /\ ~last.panic
            /\ Target >= 0 => UsizeIs(pc, Target)
            /\ Target < 0 => (pc = as_usize(Target) /\ AtEnd(VMState, program))
            /\ RegistersKept /\ FlagsKept)
    /\ [][(JumpStepped("JMP") /\ (Target >= Len(program) \/ Target < 0))
            => NextReportsHalted]_vars

\* a Jump at offset 4 of a 7-byte program has been stepped with 7 in its register
C13_Witness ==
    /\ JumpStepped("JMP")
    /\ last.pre.pc = Wide(4)
    /\ Target = 7
    /\ pc = Wide(7)
    /\ Len(program) = 7
    /\ registers[0] = 7

(***************************************************************************)
(* C14.  A step of JumpForward(r) whose opcode byte is at offset p sets pc *)
(* to p + registers[r]: the displacement is relative to the jump           *)
(* instruction's own position.                                             *)
(* C14_ForwardFromOwnPosition states that; C14_ForwardFromNext states what *)
(* the step does: the displacement is added to the offset p + 2 of the     *)
(* instruction after the jump.                                             *)
(***************************************************************************)
\* the usize w is base + k, for a small base and an i32 k >= 0
UsizeIsSum(w, base, k) ==
    /\ k >= 0
    /\ w = [hi |-> (k \div B30) + (((k % B30) + base) \div B30),
            lo |-> ((k % B30) + base) % B30]
JumpAt == last.pre.pc.lo

C14_ForwardFromOwnPosition ==
    JumpStepped("JMPF") => (~last.panic /\ UsizeIsSum(pc, JumpAt, Target))

C14_ForwardFromNext ==
    JumpStepped("JMPF") =>
        /\ RegistersKept /\ FlagsKept
        /\ IF Target >= 0
           THEN ~last.panic /\ UsizeIsSum(pc, JumpAt + 2, Target)
           ELSE IF JumpAt + 2 + Target < 0
           THEN ~last.panic /\ pc = as_usize(JumpAt + 2 + Target)
           ELSE IF overflow_checks THEN last.panic
           ELSE ~last.panic /\ pc = Wide(JumpAt + 2 + Target)

\* a JumpForward at offset 4 has been stepped with 2 in its register
C14_Witness ==
    /\ JumpStepped("JMPF")
    /\ JumpAt = 4
    /\ Target = 2
    /\ pc = Wide(8)

(***************************************************************************)
(* C15.  A step of JumpBack(r) whose opcode byte is at offset p, with k =  *)
(* registers[r]: if 0 <= k <= p + 2 the new pc is p + 2 - k; if k > p + 2  *)
(* the subtraction is a fatal fault, and pc never takes a value below 0.   *)
(***************************************************************************)
C15_JumpBack ==
    JumpStepped("JMPB") =>
        /\ (0 <= Target /\ Target <= JumpAt + 2)
               => (~last.panic /\ pc = Wide((JumpAt + 2) - Target))
        /\ Target > JumpAt + 2 => (last.panic /\ panicked /\ pc.hi = 0)

(***************************************************************************)
(* C16.  Buffer exhaustion halts exactly like an explicit Halt: when pc >= *)
(* len(program), execute_once reports done and run() returns, with         *)
(* registers, cmp and remainder identical to what they would be had a Halt *)
(* instruction been executed at that point.                                *)
(***************************************************************************)
\* the last call found pc >= len(program)
ExhaustedCall == last.by # "none" /\ last.op = "none"
\* the call reported done and the data state is untouched
HaltedQuietly ==
    /\ last.done /\ ~last.panic
    /\ RegistersKept /\ FlagsKept
\* what the Halt arm leaves when executed in the state before the last call
HaltThere == exec_HLT(last.pre, program, overflow_checks)

ExhaustionAsHalt ==
    /\ ExhaustedCall =>
          /\ AtEnd(last.pre, program)
          /\ HaltedQuietly
          /\ last.done = HaltThere.done /\ last.panic = HaltThere.panic
          /\ registers = HaltThere.vm.registers
          /\ cmp = HaltThere.vm.cmp
          /\ remainder = HaltThere.vm.remainder
    /\ last.op = "HLT" => HaltedQuietly
\* a turn of run()'s loop that finds the buffer exhausted, or executes Halt
RunTurnHalts == running /\ steps' = steps + 1 /\ last'.op \in {"none", "HLT"}

C16_ExhaustionLikeHalt ==
    []ExhaustionAsHalt /\ [][RunTurnHalts => ~running']_vars

\* run() has returned at the end of Load(0, 7); Load(1, 2); Divide(0, 1, 2); Not
C16_Witness ==
    /\ ExhaustedCall
    /\ last.by = "run"
    /\ ~running
    /\ registers[0] = 7 /\ registers[2] = 3
    /\ remainder = Wide(1)
    /\ cmp

(***************************************************************************)
(* C17.  Halted is an absorbing state: once a step has reported Halted     *)
(* (because pc >= len(program) or because a Halt instruction executed),    *)
(* every later step() or run() on the same VM executes no instruction and  *)
(* leaves registers, pc, cmp and remainder unchanged, even when bytes      *)
(* follow the Halt in the buffer.                                          *)
(***************************************************************************)
\* the most recent call of execute_once reported Halted
ReportedHalted == last.by # "none" /\ last.done /\ ~last.panic

C17_HaltedAbsorbing ==
    [][ReportedHalted =>
          /\ UNCHANGED <<registers, pc, cmp, remainder>>
          /\ steps' = steps + 1 => last'.op = "none"]_vars

(***************************************************************************)
(* C18.  run() is repeated single-stepping: when run() returns, the        *)
(* registers, pc, cmp and remainder equal those reached by calling step()  *)
(* repeatedly from the state run() started in until a step reports Halted; *)
(* and each step() executes exactly one instruction when pc <              *)
(* len(program).                                                           *)
(***************************************************************************)
RECURSIVE StepUntilHalted(_, _)
\* the outcome of the first of at most n + 1 successive calls from state m that
\* reports Halted (or panics)
StepUntilHalted(m, n) ==
    LET r == execute_once(m, program, overflow_checks)
    IN  IF r.done \/ r.panic \/ n = 0 THEN r ELSE StepUntilHalted(r.vm, n - 1)
RunReturned == last.by = "run" /\ ~running /\ ~panicked
IsJump(op) == op \in {"JMP", "JMPF", "JMPB"}

C18_RunIsRepeatedStep ==
    /\ RunReturned =>
          /\ last.done
          /\ StepUntilHalted(run_from, MaxSteps).done
          /\ VMState = StepUntilHalted(run_from, MaxSteps).vm
    /\ (last.by = "step" /\ ~AtEnd(last.pre, program)) =>
          /\ last.op # "none"
          /\ (~last.panic /\ ~IsJump(last.op)) => PcAdvanced(1 + OperandBytes(last.op))

\* after one step(), run() has executed the rest of Load(0, 7); Load(1, 2);
\* Subtract(0, 1, 2); Not and returned at the end of the buffer
C18_Witness ==
    /\ RunReturned
    /\ run_from.pc = Wide(4)
    /\ run_from.registers[0] = 7 /\ run_from.registers[1] = 0
    /\ registers[1] = 2 /\ registers[2] = 5
    /\ cmp
    /\ pc = Wide(Len(program))

RECURSIVE Pow(_, _)
Pow(a, n) == IF n = 0 THEN 1 ELSE a * Pow(a, n - 1)
\* the last call started at the Power instruction that ends a Power program
PowerStepped ==
    /\ last.by # "none"
    /\ last.pre.pc = Wide(Len(program) - 4)
    /\ FetchedByte = pow_u8_from_Opcode("POW")
    /\ program \in PowerPrograms

C20_PowerExecutes ==
    PowerStepped =>
        /\ last.op = "POW"
        /\ IF Right >= 0
           THEN ~last.panic /\ registers[Operand(3)] = Pow(Left, Right)
           ELSE last.panic

(***************************************************************************)
(* Text.  A text is a sequence of one-character strings.  A parser applied *)
(* to text s at index i returns [ok, panic, val, pos]: whether it matched, *)
(* whether it panicked instead (`.unwrapped()` on a failed from_str), its  *)
(* output, and the index of the first character it has not consumed.  A    *)
(* parser that fails has consumed nothing.                                 *)
(***************************************************************************)
Digit == <<"0", "1", "2", "3", "4", "5", "6", "7", "8", "9">>
IsDigit(c) == \E d \in 1..10 : Digit[d] = c
DigitValue(c) == (CHOOSE d \in 1..10 : Digit[d] = c) - 1
\* char::is_whitespace on the characters that occur
IsWhitespace(c) == c \in {" ", "\n", "\t"}

Matched(v, i) == [ok |-> TRUE, panic |-> FALSE, val |-> v, pos |-> i]
NoMatch(i) == [ok |-> FALSE, panic |-> FALSE, val |-> <<>>, pos |-> i]
Unwrapped(i) == [ok |-> FALSE, panic |-> TRUE, val |-> <<>>, pos |-> i]

\* just(pat)
just(pat, s, i) ==
    IF i + Len(pat) - 1 <= Len(s) /\ \A k \in 1..Len(pat) : s[i + k - 1] = pat[k]
    THEN Matched(pat, i + Len(pat)) ELSE NoMatch(i)

RECURSIVE DigitsEnd(_, _)
DigitsEnd(s, i) == IF i <= Len(s) /\ IsDigit(s[i]) THEN DigitsEnd(s, i + 1) ELSE i
\* text::digits(10): one or more digits
digits(s, i) ==
    LET upto(e) == IF e = i THEN NoMatch(i) ELSE Matched(SubSeq(s, i, e - 1), e)
    IN  upto(DigitsEnd(s, i))
\* text::int(10): a digit other than 0 followed by digits, or a single 0
int(s, i) ==
    IF i <= Len(s) /\ IsDigit(s[i]) /\ s[i] # "0" THEN digits(s, i)
    ELSE just(<<"0">>, s, i)

RECURSIVE Decimal(_)
Decimal(ds) ==
    IF ds = <<>> THEN 0
    ELSE Decimal(SubSeq(ds, 1, Len(ds) - 1)) * 10 + DigitValue(ds[Len(ds)])
\* .from_str::<T>().unwrapped() on a run of digits, for an integer type with
\* maximum max: the value, or a panic when it does not fit
from_str_unwrapped(d, max) ==
    IF ~d.ok THEN d
    ELSE IF Decimal(d.val) > max THEN Unwrapped(d.pos)
    ELSE Matched(Decimal(d.val), d.pos)

RECURSIVE SkipWhitespace(_, _)
SkipWhitespace(s, i) ==
    IF i <= Len(s) /\ IsWhitespace(s[i]) THEN SkipWhitespace(s, i + 1) ELSE i

(***************************************************************************)
(* The assemblers: assembler/src/lib.rs, and vm/src/parsing.rs, which      *)
(* differs in its mnemonics and in accepting a minus sign in an immediate. *)
(***************************************************************************)
\* fault injection: a register skips the characters before its " $"
register_skipping(s, i) ==
    LET number(d) == IF d.ok \/ d.panic THEN d ELSE NoMatch(i)
        sigils == {j \in i..Len(s) : just(<<" ", "$">>, s, j).ok}
        first(js) == IF js = {} THEN NoMatch(i)
                     ELSE number(from_str_unwrapped(
                              digits(s, (CHOOSE j \in js : \A k \in js : j <= k) + 2), 255))
    IN  first(sigils)

\* just(" $").ignore_then(text::digits(10).from_str::<u8>().unwrapped())
register(s, i) ==
    LET number(d) == IF d.ok \/ d.panic THEN d ELSE NoMatch(i)
        after(sigil) == IF ~sigil.ok THEN NoMatch(i)
                        ELSE number(from_str_unwrapped(digits(s, sigil.pos), 255))
    IN  after(just(<<" ", "$">>, s, i))

\* assembler: just(" #").ignore_then(text::digits(10).from_str::<i16>().unwrapped())
value(s, i) ==
    LET number(d) == IF d.ok \/ d.panic THEN d ELSE NoMatch(i)
        after(sigil) == IF ~sigil.ok THEN NoMatch(i)
                        ELSE number(from_str_unwrapped(digits(s, sigil.pos), I16Max))
    IN  after(just(<<" ", "#">>, s, i))

\* vm/src/parsing.rs: just('-').or_not().then(digits ...).foldr(|_, b| -b)
vm_value(s, i) ==
    LET folded(minus, d) ==
            IF d.panic THEN d
            ELSE IF ~d.ok THEN NoMatch(i)
            ELSE IF minus.ok THEN Matched(-d.val, d.pos) ELSE d
        signed(minus) == folded(minus, from_str_unwrapped(digits(s, minus.pos), I16Max))
        after(sigil) == IF ~sigil.ok THEN NoMatch(i) ELSE signed(just(<<"-">>, s, sigil.pos))
    IN  after(just(<<" ", "#">>, s, i))

Alt(name, tag, regs, imm) == [name |-> name, tag |-> tag, regs |-> regs, imm |-> imm]
op_halt == Alt(<<"H", "L", "T">>, "Halt", 0, FALSE)
op_not == Alt(<<"N", "O", "T">>, "Not", 0, FALSE)
op_jmp == Alt(<<"J", "M", "P">>, "Jump", 1, FALSE)
op_jmpf == Alt(<<"J", "M", "P", "F">>, "JumpForward", 1, FALSE)
op_jmpb == Alt(<<"J", "M", "P", "B">>, "JumpBack", 1, FALSE)
op_jmpif == Alt(<<"J", "M", "P", "I", "F">>, "JumpIf", 1, FALSE)
op_add == Alt(<<"A", "D", "D">>, "Add", 3, FALSE)
op_sub == Alt(<<"S", "U", "B">>, "Subtract", 3, FALSE)
op_mul == Alt(<<"M", "U", "L">>, "Multiply", 3, FALSE)
op_div == Alt(<<"D", "I", "V">>, "Divide", 3, FALSE)
op_eq == Alt(<<"E", "Q">>, "Equal", 2, FALSE)
op_gt == Alt(<<"G", "T">>, "GreaterThan", 2, FALSE)
op_gtq == Alt(<<"G", "T", "Q">>, "GreaterThanEqual", 2, FALSE)
op_load == Alt(<<"L", "O", "A", "D">>, "Load", 1, TRUE)
\* the tuples handed to choice(..), in the order they are tried
asm_choice ==
    <<op_halt, op_not, op_jmp, op_jmpf, op_jmpb, op_add, op_sub, op_mul, op_div,
      op_eq, op_gt, op_gtq, op_load>>
vm_choice ==
    <<op_halt, op_not, op_jmp, op_jmpif, op_add, op_sub, op_mul, op_div, op_eq,
      op_gt, op_gtq, op_load>>

RECURSIVE then_registers(_, _, _)
\* .ignore_then(register).then(register)...: n registers in a row
then_registers(n, s, i) ==
    LET both(r, rest) == IF ~rest.ok THEN rest ELSE Matched(<<r.val>> \o rest.val, rest.pos)
        more(r) == IF ~r.ok THEN r ELSE both(r, then_registers(n - 1, s, r.pos))
    IN  IF n = 0 THEN Matched(<<>>, i) ELSE more(register(s, i))

\* one op_xxx parser: the mnemonic, its registers, its immediate; signed says
\* whose `value` is used
operation(alt, signed, s, i) ==
    LET with_imm(regs, imm) ==
            IF imm.panic THEN imm
            ELSE IF ~imm.ok THEN NoMatch(i)
            ELSE Matched(<<alt.tag>> \o regs.val \o <<imm.val>>, imm.pos)
        with_regs(regs) ==
            IF regs.panic THEN regs
            ELSE IF ~regs.ok THEN NoMatch(i)
            ELSE IF ~alt.imm THEN Matched(<<alt.tag>> \o regs.val, regs.pos)
            ELSE with_imm(regs, IF signed THEN vm_value(s, regs.pos) ELSE value(s, regs.pos))
        with_name(name) ==
            IF ~name.ok THEN NoMatch(i) ELSE with_regs(then_registers(alt.regs, s, name.pos))
    IN  with_name(just(alt.name, s, i))

RECURSIVE choice(_, _, _, _)
\* choice((..)): the first alternative that matches
choice(alts, signed, s, i) ==
    LET first(r) == IF r.ok \/ r.panic THEN r ELSE choice(Tail(alts), signed, s, i)
    IN  IF alts = <<>> THEN NoMatch(i) ELSE first(operation(Head(alts), signed, s, i))

\* choice((..)).then_ignore(just('\n').or_not()), then .padded()
opcodes(alts, signed, s, i) ==
    LET line(r) ==
            IF r.panic THEN r
            ELSE IF ~r.ok THEN NoMatch(i)
            ELSE Matched(r.val, SkipWhitespace(s, just(<<"\n">>, s, r.pos).pos))
    IN  line(choice(alts, signed, s, SkipWhitespace(s, i)))

\* fault injection: repeated() keeps only its first item
repeated_first(alts, signed, s, i) ==
    LET item(r) ==
            IF r.panic THEN r
            ELSE IF ~r.ok THEN Matched(<<>>, i)
            ELSE Matched(<<r.val>>, r.pos)
    IN  item(opcodes(alts, signed, s, i))

RECURSIVE repeated(_, _, _, _)
\* .repeated(): items until one does not match; what was collected is the output
repeated(alts, signed, s, i) ==
    LET items(r, rest) ==
            IF rest.panic THEN rest ELSE Matched(<<r.val>> \o rest.val, rest.pos)
        item(r) ==
            IF r.panic THEN r
            ELSE IF ~r.ok THEN Matched(<<>>, i)
            ELSE items(r, repeated(alts, signed, s, r.pos))
    IN  item(opcodes(alts, signed, s, i))

\* Parser::parse: Ok(output) when the parser matched (input it left unread is
\* not an error), Err(..) when it did not; a panic is neither
Parsed(r) ==
    IF r.panic THEN [kind |-> "panic", val |-> <<>>]
    ELSE IF r.ok THEN [kind |-> "Ok", val |-> r.val]
    ELSE [kind |-> "Err", val |-> <<>>]

\* the same parser with its alternatives in a given order
assemble_in(alts, s) == Parsed(repeated(alts, FALSE, s, 1))
\* assembler/src/lib.rs: assemble().parse(s)
assemble(s) == assemble_in(asm_choice, s)
\* vm/src/parsing.rs: assemble().parse(s)
vm_assemble_in(alts, s) == Parsed(repeated(alts, TRUE, s, 1))
vm_assemble(s) == vm_assemble_in(vm_choice, s)

(***************************************************************************)
(* The expression parser (compiler/src/parser.rs).                         *)
(***************************************************************************)
\* one_of(op).to(f).padded(): the operator character found, among ops
op(ops, s, i) ==
    LET at(j) == IF j <= Len(s) /\ s[j] \in ops THEN Matched(s[j], SkipWhitespace(s, j + 1))
                 ELSE NoMatch(i)
    IN  at(SkipWhitespace(s, i))
\* Expr::Add, Expr::Sub, .. for the operator characters
ExprOf(c) ==
    CASE c = "+" -> "Add" [] c = "-" -> "Sub" [] c = "*" -> "Mul"
      [] c = "/" -> "Div" [] c = "^" -> "Pow"
\* the operator characters of each level: the sum, `product`, `expo`
LevelOps(level) ==
    CASE level = 1 -> {"+", "-"} [] level = 2 -> {"*", "/"} [] level = 3 -> {"^"}

RECURSIVE expr_level(_, _, _)
RECURSIVE level_rest(_, _, _, _)
RECURSIVE negated(_, _)
RECURSIVE atom(_, _)

\* fault injection: the rest of a level is folded to the right
level_rest_right(level, lhs, s, i) ==
    LET with_rhs(o, rhs) ==
            IF rhs.panic THEN rhs
            ELSE IF ~rhs.ok THEN Matched(lhs, i)
            ELSE Matched(<<ExprOf(o.val), lhs, rhs.val>>, rhs.pos)
        with_op(o) == IF ~o.ok THEN Matched(lhs, i) ELSE with_rhs(o, expr_level(level, s, o.pos))
    IN  with_op(op(LevelOps(level), s, i))

\* .then(op.then(operand).repeated()).foldl(|rhs, (op, lhs)| op(rhs, lhs)): the
\* pairs that follow lhs, folded into it from the left
level_rest(level, lhs, s, i) ==
    LET with_rhs(o, rhs) ==
            IF rhs.panic THEN rhs
            ELSE IF ~rhs.ok THEN Matched(lhs, i)
            ELSE level_rest(level, <<ExprOf(o.val), lhs, rhs.val>>, s, rhs.pos)
        with_op(o) ==
            IF ~o.ok THEN Matched(lhs, i)
            ELSE with_rhs(o, IF level = 3 THEN negated(s, o.pos)
                             ELSE expr_level(level + 1, s, o.pos))
    IN  with_op(op(LevelOps(level), s, i))

\* the sum (level 1), `product` (level 2) and `expo` (level 3)
expr_level(level, s, i) ==
    LET with_first(first) ==
            IF ~first.ok THEN first ELSE level_rest(level, first.val, s, first.pos)
    IN  with_first(IF level = 3 THEN negated(s, i) ELSE expr_level(level + 1, s, i))

\* just('-').padded().repeated().then(atom).foldr(|_, rhs| Negate(rhs))
negated(s, i) ==
    LET with_rest(rest) ==
            IF rest.panic THEN rest
            ELSE IF ~rest.ok THEN NoMatch(i)
            ELSE Matched(<<"Negate", rest.val>>, rest.pos)
        with_minus(minus) == IF minus.ok THEN with_rest(negated(s, minus.pos)) ELSE atom(s, i)
    IN  with_minus(op({"-"}, s, i))

\* int.or(expr.delimited_by(just('('), just(')')))
atom(s, i) ==
    LET with_close(inner, close) ==
            IF ~close.ok THEN NoMatch(i) ELSE Matched(inner.val, close.pos)
        with_inner(inner) ==
            IF inner.panic THEN inner
            ELSE IF ~inner.ok THEN NoMatch(i)
            ELSE with_close(inner, just(<<")">>, s, inner.pos))
        with_open(open) ==
            IF ~open.ok THEN NoMatch(i) ELSE with_inner(expr_level(1, s, open.pos))
        with_int(n) ==
            IF n.panic THEN n
            ELSE IF n.ok THEN Matched(<<"Int", n.val>>, n.pos)
            ELSE with_open(just(<<"(">>, s, i))
    IN  with_int(from_str_unwrapped(int(s, i), I16Max))

\* compiler/src/parser.rs: expr().parse(s)
expr(s) == Parsed(expr_level(1, s, 1))

(***************************************************************************)
(* Writing text: instructions as assembly lines, expressions as source.    *)
(***************************************************************************)
RECURSIVE Dec(_)
\* the decimal digits of n >= 0
Dec(n) == IF n < 10 THEN <<Digit[n + 1]>> ELSE Dec(n \div 10) \o <<Digit[(n % 10) + 1]>>
SignedDec(n) == IF n < 0 THEN <<"-">> \o Dec(-n) ELSE Dec(n)
AltOf(tag) == CHOOSE a \in {asm_choice[k] : k \in 1..Len(asm_choice)} \cup {op_jmpif} :
                  a.tag = tag
RECURSIVE WriteRegisters(_, _)
WriteRegisters(i, k) ==
    IF k > AltOf(i[1]).regs THEN <<>>
    ELSE <<" ", "$">> \o Dec(i[k + 1]) \o WriteRegisters(i, k + 1)
\* 'MNEMONIC $r ... #v'
WriteInstr(i) ==
    AltOf(i[1]).name \o WriteRegisters(i, 1)
    \o (IF AltOf(i[1]).imm THEN <<" ", "#">> \o SignedDec(i[Len(i)]) ELSE <<>>)
RECURSIVE WriteLines(_, _)
WriteLines(instrs, sep) ==
    IF instrs = <<>> THEN <<>>
    ELSE IF Len(instrs) = 1 THEN WriteInstr(instrs[1])
    ELSE WriteInstr(instrs[1]) \o sep \o WriteLines(Tail(instrs), sep)
WriteProgram(instrs, lay) == lay.lead \o WriteLines(instrs, lay.sep) \o lay.trail

\* instructions of the assembler crate's set, registers up to 255, immediates
\* from 0 to 32767
AsmSample ==
    {<<"Halt">>, <<"Not">>}
    \cup {<<tg, r>> : tg \in {"Jump", "JumpForward", "JumpBack"}, r \in {0, 255}}
    \cup {<<tg, 0, 1, 2>> : tg \in {"Add", "Subtract", "Multiply", "Divide"}}
    \cup {<<tg, 255, 10, 7>> : tg \in {"Add", "Subtract", "Multiply", "Divide"}}
    \cup {<<tg, a, 255 - a>> : tg \in {"Equal", "GreaterThan", "GreaterThanEqual"},
                               a \in {0, 254}}
    \cup {<<"Load", r, v>> : r \in {2, 255}, v \in {0, 1, I16Max}}
AsmSequences ==
    {<<>>} \cup {<<i>> : i \in AsmSample} \cup {<<i, j>> : i \in AsmSample, j \in AsmSample}
Layouts ==
    [lead : {<<>>, <<" ", "\n">>},
     sep : {<<"\n">>, <<" ">>, <<"\n", "\n">>, <<" ", "\n", "\t", " ">>},
     trail : {<<>>, <<"\n", " ">>}]
\* lines no alternative matches
BadLines == {<<"F", "O", "O", " ", "$", "1">>, <<"A", "D", "D", " ", "$", "0", " ", "$", "1">>, <<"L", "O", "A", "D", " ", "$", "1", " ", "5">>, <<"J", "M", "P", " ", "1">>, <<"L", "O", "A", "D", " ", "$", "1", " ", "#">>, <<"j", "m", "p", " ", "$", "1">>}
\* texts with a literal that does not fit its type
AsmLiteralTexts == {<<"J", "M", "P", " ", "$", "2", "5", "6">>, <<"A", "D", "D", " ", "$", "0", " ", "$", "1", " ", "$", "9", "9", "9">>, <<"L", "O", "A", "D", " ", "$", "0", " ", "#", "3", "2", "7", "6", "8">>, <<"L", "O", "A", "D", " ", "$", "0", " ", "#", "-", "3", "2", "7", "6", "8">>, <<"L", "O", "A", "D", " ", "$", "3", "0", "0", " ", "#", "1">>}
ExprLiteralTexts == {<<"3", "2", "7", "6", "8">>, <<"2", " ", "+", " ", "4", "0", "0", "0", "0">>, <<"-", "3", "2", "7", "6", "8">>}
PrefixSample ==
    {<<>>, << <<"Add", 0, 1, 2>> >>, << <<"Load", 2, 1>>, <<"Halt">> >>}
MnemonicSample ==
    {<<tg, r>> : tg \in {"Jump", "JumpForward", "JumpBack", "JumpIf"}, r \in {0, 9, 255}}
    \cup {<<tg, a, b>> : tg \in {"GreaterThan", "GreaterThanEqual"}, a \in {0, 255},
                         b \in {1, 30}}

\* expression source: atoms a, b, c and operator characters o1, o2 in one of
\* the shapes below, with `gap` between operands and operators
OpChars == {"+", "-", "*", "/", "^"}
Atoms == {2, 8, 40}
ExprForms ==
    {<<shape, gap, a, o1, b, o2, c>> :
        shape \in {"chain", "left", "right"}, gap \in {<<>>, <<" ">>},
        a \in Atoms, o1 \in OpChars, b \in {8}, o2 \in OpChars, c \in Atoms}
    \cup {<<shape, gap, a, o1, b>> :
            shape \in {"negl", "negr", "binary"}, gap \in {<<>>, <<" ">>},
            a \in Atoms, o1 \in OpChars, b \in Atoms}
    \cup {<<shape, <<>>, a>> : shape \in {"atom", "neg", "negneg", "group"}, a \in Atoms \cup {0}}
WriteExpr(f) ==
    LET g == f[2]
        a == Dec(f[3])
    IN  CASE f[1] = "chain" -> a \o g \o <<f[4]>> \o g \o Dec(f[5]) \o g \o <<f[6]>> \o g \o Dec(f[7])
          [] f[1] = "left" -> <<"(">> \o a \o g \o <<f[4]>> \o g \o Dec(f[5]) \o <<")">>
                              \o g \o <<f[6]>> \o g \o Dec(f[7])
          [] f[1] = "right" -> a \o g \o <<f[4]>> \o g \o <<"(">> \o Dec(f[5]) \o g
                               \o <<f[6]>> \o g \o Dec(f[7]) \o <<")">>
          [] f[1] = "binary" -> a \o g \o <<f[4]>> \o g \o Dec(f[5])
          [] f[1] = "negl" -> <<"-">> \o a \o g \o <<f[4]>> \o g \o Dec(f[5])
          [] f[1] = "negr" -> a \o g \o <<f[4]>> \o g \o <<"-">> \o Dec(f[5])
          [] f[1] = "atom" -> a
          [] f[1] = "neg" -> <<"-">> \o a
          [] f[1] = "negneg" -> <<"-", " ", "-">> \o a
          [] f[1] = "group" -> <<"(">> \o a \o <<")">>

\* expressions of depth up to 2 over two literals, and the bases they are
\* lowered at
Exprs0 == {<<"Int", v>> : v \in {2, 3}}
Exprs1 ==
    Exprs0 \cup {<<"Negate", e>> : e \in Exprs0}
    \cup {<<o, a, b>> : o \in BinOps, a \in Exprs0, b \in Exprs0}
Exprs2 ==
    Exprs1 \cup {<<"Negate", e>> : e \in Exprs1}
    \cup {<<o, a, b>> : o \in BinOps, a \in Exprs1, b \in Exprs1}
Bases == {0, 1, 254, 255}

(***************************************************************************)
(* The parsers and the lowering applied to an argument: `input` is the     *)
(* argument with what it was written from, `output` what was returned.     *)
(***************************************************************************)
TextInputs ==
    {<<"asm", WriteProgram(is, lay), is>> : is \in AsmSequences, lay \in Layouts}
    \cup {<<"load", WriteInstr(<<"Load", r, v>>), <<"Load", r, v>> >> :
            r \in {0, 2, 255}, v \in I16Sample}
    \cup {<<"bad", WriteLines(pre, <<"\n">>) \o (IF pre = <<>> THEN <<>> ELSE <<"\n">>)
                   \o b \o tail, pre>> :
            pre \in PrefixSample, b \in BadLines,
            tail \in {<<>>, <<"\n">> \o WriteInstr(<<"Not">>)}}
    \cup {<<"mnemonic", WriteInstr(i), i>> : i \in MnemonicSample}
    \cup {<<"literal", x>> : x \in AsmLiteralTexts}
    \cup {<<"exprliteral", x>> : x \in ExprLiteralTexts}
    \cup {<<"expr", WriteExpr(f), f>> : f \in ExprForms}
    \cup {<<"compile", e, n>> : e \in Exprs2, n \in Bases}
AsmKinds == {"asm", "load", "bad", "mnemonic", "literal"}
ExprKinds == {"expr", "exprliteral"}

\* assemble().parse(text) of the assembler crate and of vm/src/parsing.rs
assemble_text ==
    /\ input[1] \in AsmKinds
    /\ output = <<>>
    /\ output' = [asm |-> assemble(input[2]), vm |-> vm_assemble(input[2])]
    /\ UNCHANGED <<registers, pc, program, remainder, cmp, panicked, running, last,
                   steps, run_from, twin, overflow_checks, input>>

\* parser::expr().parse(text)
parse_expr ==
    /\ input[1] \in ExprKinds
    /\ output = <<>>
    /\ output' = expr(input[2])
    /\ UNCHANGED <<registers, pc, program, remainder, cmp, panicked, running, last,
                   steps, run_from, twin, overflow_checks, input>>

\* compile_expr(e, n)
compile ==
    /\ input[1] = "compile"
    /\ output = <<>>
    /\ output' = compile_expr(input[2], input[3], overflow_checks)
    /\ UNCHANGED <<registers, pc, program, remainder, cmp, panicked, running, last,
                   steps, run_from, twin, overflow_checks, input>>

InitText ==
    /\ input \in TextInputs
    /\ output = <<>>
    /\ overflow_checks \in BOOLEAN
    /\ program = <<>>
    /\ registers = Default.registers
    /\ pc = Default.pc
    /\ remainder = Default.remainder
    /\ cmp = Default.cmp
    /\ panicked = FALSE
    /\ running = FALSE
    /\ last = NoCall
    /\ steps = 0
    /\ run_from = Default
    /\ twin = Returned(Default, FALSE)

NextText == assemble_text \/ parse_expr \/ compile

SpecText == InitText /\ [][NextText]_vars

(***************************************************************************)
(* The assembler's contract.                                               *)
(***************************************************************************)
Assembled == input[1] \in AsmKinds /\ output # <<>>
Ok(v) == [kind |-> "Ok", val |-> v]

\* C21: a sequence of instructions of the assembler's set, registers in
\* 0..255 and immediates in 0..32767, written one per line (with leading and
\* trailing whitespace and blank lines) or separated by one space, assembles
\* to exactly that sequence.
C21_RoundTrip == (Assembled /\ input[1] = "asm") => output.asm = Ok(input[3])
C21_Witness ==
    /\ Assembled /\ input[1] = "asm"
    /\ Len(input[3]) = 2 /\ input[3][1] # input[3][2]
    /\ input[3][2][1] = "Load"
    /\ Len(input[2]) > Len(WriteLines(input[3], <<" ">>)) + 2
    /\ output.asm.kind = "Ok" /\ Len(output.asm.val) = 2

\* C22: 'LOAD $r #v' assembles to [Load(r, v)] for every v in -32768..32767,
\* the negative ones written with a leading minus sign.
C22_SignedImmediate ==
    (Assembled /\ input[1] = "load") => output.asm = Ok(<<input[3]>>)

\* C23: a text with a line that has an unknown mnemonic or malformed operands
\* assembles to an error, whatever well-formed lines precede it.
C23_BadLineFails == (Assembled /\ input[1] = "bad") => output.asm.kind = "Err"

Reverse(q) == [k \in 1..Len(q) |-> q[Len(q) + 1 - k]]
\* the alternatives in source order, reversed, and with the longer mnemonics
\* moved in front of the shorter ones
AsmOrders ==
    {asm_choice, Reverse(asm_choice),
     <<op_jmpb, op_jmpf, op_gtq>> \o SelectSeq(asm_choice, LAMBDA a : a \notin {op_jmpb, op_jmpf, op_gtq})}
VmOrders ==
    {vm_choice, Reverse(vm_choice),
     <<op_jmpif, op_gtq>> \o SelectSeq(vm_choice, LAMBDA a : a \notin {op_jmpif, op_gtq})}
\* C24: 'JMPF $r', 'JMPB $r', 'JMPIF $r' and 'GTQ $a $b' assemble to
\* JumpForward, JumpBack, JumpIf and GreaterThanEqual (and 'JMP $r', 'GT $a $b'
\* to Jump and GreaterThan), in whichever order the alternatives are tried.
C24_PrefixMnemonics ==
    (Assembled /\ input[1] = "mnemonic") =>
        /\ input[3][1] # "JumpIf" =>
              /\ output.asm = Ok(<<input[3]>>)
              /\ \A alts \in AsmOrders : assemble_in(alts, input[2]) = Ok(<<input[3]>>)
        /\ input[3][1] \notin {"JumpForward", "JumpBack"} =>
              /\ output.vm = Ok(<<input[3]>>)
              /\ \A alts \in VmOrders : vm_assemble_in(alts, input[2]) = Ok(<<input[3]>>)
C24_Witness ==
    /\ Assembled /\ input[1] = "mnemonic"
    /\ input[3] = <<"JumpForward", 255>>
    /\ output.asm = Ok(<< <<"JumpForward", 255>> >>)

\* C25: for every text the assemblers and the expression parser return a
\* result or an error value; a literal that does not fit its type is an error
\* value too.
C25_ErrorsAreData ==
    /\ Assembled => output.asm.kind \in {"Ok", "Err"} /\ output.vm.kind \in {"Ok", "Err"}
    /\ (input[1] \in ExprKinds /\ output # <<>>) => output.kind \in {"Ok", "Err"}

(***************************************************************************)
(* The lowering's contract.                                                *)
(***************************************************************************)
Lowered == input[1] = "compile" /\ output # <<>>
RECURSIVE Lowering(_, _)
\* the instruction list the recursive equations give for e at base n, with
\* register numbers as integers
Lowering(e, n) ==
    IF e[1] = "Int" THEN << <<"Load", n, e[2]>> >>
    ELSE IF e[1] = "Negate"
    THEN Lowering(e[2], n) \o << <<"Load", n + 1, -1>>, <<"Multiply", n, n + 1, n>> >>
    ELSE Lowering(e[2], n) \o Lowering(e[3], n + 1) \o << <<OpInstr(e[1]), n, n + 1, n>> >>
RECURSIVE Need(_)
\* how many registers above its base the lowering of e uses
Need(e) ==
    LET larger(a, b) == IF a > b THEN a ELSE b
    IN  IF e[1] = "Int" THEN 0
        ELSE IF e[1] = "Negate" THEN larger(Need(e[2]), 1)
        ELSE larger(Need(e[2]), 1 + Need(e[3]))
Fits(e, n) == n + Need(e) <= 255
\* an instruction with its register numbers reduced modulo 256
WrapInstr(i) ==
    IF i[1] = "Load" THEN <<i[1], i[2] % 256, i[3]>>
    ELSE <<i[1], i[2] % 256, i[3] % 256, i[4] % 256>>
WrapAll(is) == [k \in 1..Len(is) |-> WrapInstr(is[k])]

\* C26 (as stated): compile_expr(e, n) is the list the recursive equations
\* give, for every e and n.
C26_ExactLowering == Lowered => output = Compiled(Lowering(input[2], input[3]))
\* C26 (amended): it is that list whenever the registers n .. n + Need(e) exist;
\* otherwise the call panics where overflow is checked and returns the list
\* with register numbers modulo 256 where it is not.
C26_ExactLoweringInRange ==
    Lowered =>
        IF Fits(input[2], input[3]) THEN output = Compiled(Lowering(input[2], input[3]))
        ELSE IF overflow_checks THEN output.panic
        ELSE output = Compiled(WrapAll(Lowering(input[2], input[3])))
C26_Witness ==
    /\ Lowered
    /\ input[2] = <<"Sub", <<"Int", 2>>, <<"Mul", <<"Int", 3>>, <<"Int", 2>> >> >>
    /\ input[3] = 0
    /\ output = Compiled(<< <<"Load", 0, 2>>, <<"Load", 1, 3>>, <<"Load", 2, 2>>,
                            <<"Multiply", 1, 2, 1>>, <<"Subtract", 0, 1, 0>> >>)

InstrRegs(i) == IF i[1] = "Load" THEN {i[2]} ELSE {i[2], i[3], i[4]}
Dest(i) == IF i[1] = "Load" THEN i[2] ELSE i[4]
RECURSIVE Size(_)
\* the number of instructions e lowers to
Size(e) ==
    IF e[1] = "Int" THEN 1
    ELSE IF e[1] = "Negate" THEN Size(e[2]) + 2
    ELSE Size(e[2]) + Size(e[3]) + 1
RECURSIVE LeftKept(_, _, _)
\* in code, the lowering of e at base n, no instruction of a right operand
\* writes the register that holds its left operand
LeftKept(e, n, code) ==
    IF e[1] = "Int" THEN TRUE
    ELSE IF e[1] = "Negate" THEN LeftKept(e[2], n, SubSeq(code, 1, Size(e[2])))
    ELSE /\ \A k \in (Size(e[2]) + 1)..(Size(e[2]) + Size(e[3])) : Dest(code[k]) # n
         /\ LeftKept(e[2], n, SubSeq(code, 1, Size(e[2])))
         /\ LeftKept(e[3], n + 1, SubSeq(code, Size(e[2]) + 1, Size(e[2]) + Size(e[3])))
BaseRespected(e, n, code) ==
    /\ Len(code) = Size(e)
    /\ \A k \in 1..Len(code) : \A r \in InstrRegs(code[k]) : r >= n
    /\ Dest(code[Len(code)]) = n
    /\ LeftKept(e, n, code)

\* C27 (as stated): for every e and n, every register index in
\* compile_expr(e, n) is >= n, the last instruction writes register n, and no
\* instruction of a right operand's code writes the left operand's register.
C27_BaseRespected == Lowered => ~output.panic /\ BaseRespected(input[2], input[3], output.val)
\* C27 (amended): so it is whenever the registers n .. n + Need(e) exist;
\* otherwise the call panics where overflow is checked, and where it is not
\* the list names a register below n.
C27_BaseRespectedInRange ==
    Lowered =>
        IF Fits(input[2], input[3])
        THEN ~output.panic /\ BaseRespected(input[2], input[3], output.val)
        ELSE IF overflow_checks THEN output.panic
        ELSE /\ ~output.panic
             /\ \E k \in 1..Len(output.val) : \E r \in InstrRegs(output.val[k]) : r < input[3]
C27_Witness ==
    /\ Lowered
    /\ input[2] = <<"Add", <<"Negate", <<"Int", 2>> >>, <<"Mul", <<"Int", 3>>, <<"Int", 2>> >> >>
    /\ input[3] = 1
    /\ ~output.panic /\ Len(output.val) = 7
    /\ Dest(output.val[7]) = 1 /\ Dest(output.val[6]) = 2

(***************************************************************************)
(* The expression grammar's contract.                                      *)
(***************************************************************************)
ExprParsed == input[1] = "expr" /\ output # <<>>
\* the level of an operator character: additive 1, multiplicative 2, exponent 3
Prec(c) == IF c \in {"+", "-"} THEN 1 ELSE IF c \in {"*", "/"} THEN 2 ELSE 3
Lit(a) == <<"Int", a>>
Bin(c, l, r) == <<ExprOf(c), l, r>>
\* what the grammar of the specification makes of a written form
Expected(f) ==
    CASE f[1] = "chain" ->
             IF Prec(f[6]) > Prec(f[4])
             THEN Bin(f[4], Lit(f[3]), Bin(f[6], Lit(f[5]), Lit(f[7])))
             ELSE Bin(f[6], Bin(f[4], Lit(f[3]), Lit(f[5])), Lit(f[7]))
      [] f[1] = "left" -> Bin(f[6], Bin(f[4], Lit(f[3]), Lit(f[5])), Lit(f[7]))
      [] f[1] = "right" -> Bin(f[4], Lit(f[3]), Bin(f[6], Lit(f[5]), Lit(f[7])))
      [] f[1] = "binary" -> Bin(f[4], Lit(f[3]), Lit(f[5]))
      [] f[1] = "negl" -> Bin(f[4], <<"Negate", Lit(f[3])>>, Lit(f[5]))
      [] f[1] = "negr" -> Bin(f[4], Lit(f[3]), <<"Negate", Lit(f[5])>>)
      [] f[1] = "atom" -> Lit(f[3])
      [] f[1] = "neg" -> <<"Negate", Lit(f[3])>>
      [] f[1] = "negneg" -> <<"Negate", <<"Negate", Lit(f[3])>> >>
      [] f[1] = "group" -> Lit(f[3])
\* a chain of two operators of the exponent level
PowChain(f) == f[1] = "chain" /\ f[4] = "^" /\ f[6] = "^"
\* a chain of operators of the additive and multiplicative levels
PlainChain(f) == f[1] = "chain" /\ Prec(f[4]) < 3 /\ Prec(f[6]) < 3

\* C28: in 'a o1 b o2 c' over + - * /, the operator of the higher level binds
\* tighter and operators of one level group to the left; a unary minus
\* applies to the atom that follows it, under every binary operator; a
\* parenthesised group is the operand of the operator next to it.
C28_Precedence ==
    (ExprParsed /\ (input[3][1] # "chain" \/ PlainChain(input[3]))) =>
        output = Ok(Expected(input[3]))
C28_Witness ==
    /\ ExprParsed
    /\ input[3] = <<"chain", <<" ">>, 2, "/", 8, "-", 40>>
    /\ output = Ok(<<"Sub", <<"Div", <<"Int", 2>>, <<"Int", 8>> >>, <<"Int", 40>> >>)

\* C29: 'a ^ b ^ c' parses to Pow(a, Pow(b, c)).
C29_PowRightAssociative ==
    (ExprParsed /\ PowChain(input[3])) =>
        output = Ok(<<"Pow", Lit(input[3][3]), <<"Pow", Lit(input[3][5]), Lit(input[3][7])>> >>)

(***************************************************************************)
(* Compiled code on the VM.                                                *)
(***************************************************************************)
RECURSIVE Eval(_)
\* the value of an expression
Eval(e) ==
    CASE e[1] = "Int" -> e[2]
      [] e[1] = "Negate" -> -Eval(e[2])
      [] e[1] = "Add" -> Eval(e[2]) + Eval(e[3])
      [] e[1] = "Sub" -> Eval(e[2]) - Eval(e[3])
      [] e[1] = "Mul" -> Eval(e[2]) * Eval(e[3])
\* the program is the compiled Negate(e), and the call that has just returned
\* executed its last instruction
NegationRan(e) ==
    /\ program = PowEncode(compile_expr(<<"Negate", e>>, 0, FALSE).val)
    /\ last.by # "none"
    /\ last.pre.pc = Wide(Len(program) - 4)
    /\ ~last.panic

\* C30: after the bytes of compile_expr(Negate(e), 0) have run on a fresh VM,
\* registers[0] is minus the value of e.
C30_NegationComputed ==
    \A e \in NegatedExprs : NegationRan(e) => registers[0] = -Eval(e)

(***************************************************************************)
(* The two shells: compiler/src/main.rs (expressions are compiled and      *)
(* appended to the program of a live VM) and vm/src/main.rs started        *)
(* without --raw-hex (an assembly line replaces the program).  A command   *)
(* is one action, but for `.run`, which is entered and then takes the      *)
(* turns of VM::run's loop one by one, MaxTurns of them at most (a shell   *)
(* still running then is hung).  `input` is the shell, `steps` the         *)
(* commands so far, `last` the most recent command and its most recent     *)
(* call of execute_once, `output` the most recent load, `twin` a VM with   *)
(* fresh registers, cmp and remainder given the same program and pc when   *)
(* `.run` was entered and run beside the shell's VM.                       *)
(* Commands that only print (.dbg, .registers, .program), the empty line   *)
(* and .quit change nothing of the VM and are left out.                    *)
(***************************************************************************)
MaxCommands == 4
MaxTurns == 100

Bytes(hex, e) == [panic |-> FALSE, val |-> hex, expr |-> e]
NoBytes == [panic |-> TRUE, val |-> <<>>, expr |-> <<>>]
\* compiler/src/main.rs, parse_input_to_bytes
parse_input_to_bytes(text, checks) ==
    LET lowered(e, code) ==
            IF code.panic THEN NoBytes ELSE Bytes(PowEncode(code.val), e)
        unwrap(parsed) ==
            IF parsed.kind # "Ok" THEN NoBytes
            ELSE lowered(parsed.val, compile_expr(parsed.val, 0, checks))
    IN  unwrap(expr(text))

\* vm/src/main.rs, parse_input_to_bytes without raw_hex
vm_parse_input_to_bytes(text) ==
    LET unwrap(parsed) ==
            IF parsed.kind # "Ok" THEN NoBytes
            ELSE Bytes(Flatten([j \in 1..Len(parsed.val) |->
                                   opcodes_to_bytes(parsed.val[j])]), parsed.val)
    IN  unwrap(assemble(text))

RECURSIVE RightNested(_)
\* '1+1*(1+1*( .. ))': k operators, each the right operand of the one before
RightNested(k) ==
    IF k = 0 THEN <<"1">>
    ELSE IF k = 1 THEN <<"1", "+", "1">>
    ELSE <<"1", "+", "1", "*", "(">> \o RightNested(k - 2) \o <<")">>

\* the lines typed: a larger sample as the first line of a session, a small
\* one later
ArithChars == {"+", "-", "*", "/"}
FirstForms ==
    {<<shape, <<>>, a, o1, b, o2, 2>> :
        shape \in {"chain", "left", "right"}, a \in {8, I16Max}, o1 \in ArithChars,
        b \in {0, 3}, o2 \in ArithChars}
    \cup {<<"binary", <<" ">>, a, o1, b>> : a \in {0, I16Max}, o1 \in ArithChars,
                                            b \in {0, 7, I16Max}}
    \cup {<<"atom", <<>>, a>> : a \in {0, I16Max}}
LaterExprLines ==
    {RightNested(2), <<"(", "4", "0", "^", "5", ")", "+", "(", "3", "-", "2", ")">>, <<"2">>, <<"x">>}
FirstExprLines ==
    {WriteExpr(f) : f \in FirstForms}
    \cup {RightNested(4)}
    \cup LaterExprLines
ExprLines(k) == IF k = 0 THEN FirstExprLines ELSE LaterExprLines
AsmLines ==
    {<<"L", "O", "A", "D", " ", "$", "0", " ", "#", "5">>, <<"L", "O", "A", "D", " ", "$", "1", " ", "#", "7", " ", "A", "D", "D", " ", "$", "0", " ", "$", "1", " ", "$", "2">>, <<"J", "M", "P", " ", "$", "1">>, <<"N", "O", "T">>, <<"H", "L", "T">>, <<"F", "O", "O", " ", "$", "1">>}

NoLoad == [kind |-> "none", start |-> 0, len |-> 0, at |-> Default.pc, expr |-> <<>>]
NoCommand ==
    [pre |-> Default, op |-> "none", fetched |-> "none", done |-> FALSE, panic |-> FALSE,
     by |-> "none", turns |-> 0, executed |-> 0, jumped |-> FALSE]
\* a command of the shell in `input` that calls nothing of the VM
Command(name) == [NoCommand EXCEPT !.pre = VMState, !.op = name, !.by = input[1]]
\* one more call of execute_once within the command c: it fetched `fetched`
\* ("none" at the end of the buffer) and returned r
Called(c, fetched, r) ==
    [c EXCEPT !.pre = VMState, !.fetched = fetched, !.done = r.done, !.panic = r.panic,
              !.turns = c.turns + 1,
              !.executed = c.executed + (IF fetched = "none" THEN 0 ELSE 1),
              !.jumped = c.jumped \/ fetched \in {"JMP", "JMPF", "JMPB"}]
\* the VM with fresh registers, cmp and remainder takes its turn beside it
TwinTurn ==
    twin' = IF twin.done \/ twin.panic THEN twin
            ELSE execute_once(twin.vm, program, overflow_checks)
\* one call of execute_once on the shell's VM
Turn(c) ==
    LET called(r) ==
            /\ registers' = r.vm.registers
            /\ pc' = r.vm.pc
            /\ remainder' = r.vm.remainder
            /\ cmp' = r.vm.cmp
            /\ panicked' = r.panic
            /\ running' = (c.op = ".run" /\ ~r.done /\ ~r.panic)
            /\ last' = Called(c, Fetched(VMState, program), r)
    IN  called(execute_once(VMState, program, overflow_checks))

\* `.step`: vm.step()
repl_step ==
    /\ ~panicked /\ ~running
    /\ steps < MaxCommands
    /\ Turn(Command(".step"))
    /\ steps' = steps + 1
    /\ UNCHANGED <<program, run_from, twin, overflow_checks, input, output>>

\* `.run`: vm.run() is entered
repl_run ==
    /\ ~panicked /\ ~running
    /\ steps < MaxCommands
    /\ running' = TRUE
    /\ run_from' = VMState
    /\ last' = Command(".run")
    /\ twin' = Returned([Default EXCEPT !.pc = pc], FALSE)
    /\ steps' = steps + 1
    /\ UNCHANGED <<registers, pc, program, remainder, cmp, panicked, overflow_checks,
                   input, output>>

\* `.run`: one turn of `while !done { done = self.execute_once() }`
repl_run_loop ==
    /\ ~panicked /\ running
    /\ last.turns < MaxTurns
    /\ Turn(last)
    /\ TwinTurn
    /\ UNCHANGED <<program, run_from, steps, overflow_checks, input, output>>

\* `.clear` of the compiler's shell: vm.program = vec![]
repl_clear ==
    /\ ~panicked /\ ~running
    /\ steps < MaxCommands
    /\ input[1] = "compiler"
    /\ program' = <<>>
    /\ last' = Command(".clear")
    /\ output' = [NoLoad EXCEPT !.kind = "clear", !.at = pc]
    /\ steps' = steps + 1
    /\ UNCHANGED <<registers, pc, remainder, cmp, panicked, running, run_from, twin,
                   overflow_checks, input>>

\* any other line of the compiler's shell: vm.program.append(&mut hex)
repl_expr ==
    /\ ~panicked /\ ~running
    /\ steps < MaxCommands
    /\ input[1] = "compiler"
    /\ \E text \in ExprLines(steps) :
           LET loaded(hex) ==
                   /\ panicked' = hex.panic
                   /\ program' = program \o hex.val
                   /\ last' = [Command("load") EXCEPT !.panic = hex.panic]
                   /\ output' = [kind |-> "expr", start |-> Len(program),
                                 len |-> Len(hex.val), at |-> pc, expr |-> hex.expr]
           IN  loaded(parse_input_to_bytes(text, overflow_checks))
    /\ steps' = steps + 1
    /\ UNCHANGED <<registers, pc, remainder, cmp, running, run_from, twin,
                   overflow_checks, input>>

\* any other line of the VM's shell: vm.program = hex
repl_asm ==
    /\ ~panicked /\ ~running
    /\ steps < MaxCommands
    /\ input[1] = "vm"
    /\ \E text \in AsmLines :
           LET loaded(hex) ==
                   /\ panicked' = hex.panic
                   /\ program' = IF hex.panic THEN program ELSE hex.val
                   /\ last' = [Command("load") EXCEPT !.panic = hex.panic]
                   /\ output' = [kind |-> "asm", start |-> 0, len |-> Len(hex.val),
                                 at |-> pc, expr |-> hex.expr]
           IN  loaded(vm_parse_input_to_bytes(text))
    /\ steps' = steps + 1
    /\ UNCHANGED <<registers, pc, remainder, cmp, running, run_from, twin,
                   overflow_checks, input>>

\* `let mut vm = VM::default()` in each shell's repl()
InitRepl ==
    /\ input \in {<<"compiler">>, <<"vm">>}
    /\ output = NoLoad
    /\ overflow_checks \in BOOLEAN
    /\ program = <<>>
    /\ registers = Default.registers
    /\ pc = Default.pc
    /\ remainder = Default.remainder
    /\ cmp = Default.cmp
    /\ panicked = FALSE
    /\ running = FALSE
    /\ last = NoCommand
    /\ steps = 0
    /\ run_from = Default
    /\ twin = Returned(Default, FALSE)

NextRepl ==
    repl_step \/ repl_run \/ repl_run_loop \/ repl_clear \/ repl_expr \/ repl_asm

SpecRepl == InitRepl /\ [][NextRepl]_vars

(***************************************************************************)
(* The compiler and the VM linked as libraries: compile_expr(e, n), every  *)
(* instruction's to_bytes, the bytes as the program of a fresh VM, run().  *)
(* `input` is the expression and the register it is lowered at.            *)
(***************************************************************************)
MaxSpine == 3
LowerBases == {0, REGISTERS - 2, REGISTERS - 1}
RECURSIVE Spine(_, _)
\* k additions, each the right operand of the one before, of left operand l
Spine(k, l) == IF k = 0 THEN <<"Int", 1>> ELSE <<"Add", l, Spine(k - 1, l)>>
LowerInputs ==
    {<<"lower", Spine(k, l), n>> :
        k \in 0..MaxSpine, l \in {<<"Int", 1>>, <<"Mul", <<"Int", 1>>, <<"Int", 1>> >>},
        n \in LowerBases}

\* compile_expr(e, n).into_iter().flat_map(Instr::to_bytes).collect()
lower_to_bytes(e, n, checks) ==
    LET lowered(code) == IF code.panic THEN NoBytes ELSE Bytes(PowEncode(code.val), e)
    IN  lowered(compile_expr(e, n, checks))

\* the bytes become the program: vm.program = hex
lower_load ==
    /\ input[1] = "lower" /\ output = NoLoad
    /\ ~panicked /\ ~running
    /\ LET loaded(hex) ==
               /\ panicked' = hex.panic
               /\ program' = hex.val
               /\ last' = [Command("load") EXCEPT !.panic = hex.panic]
               /\ output' = [kind |-> "expr", start |-> 0, len |-> Len(hex.val),
                             at |-> pc, expr |-> hex.expr]
       IN  loaded(lower_to_bytes(input[2], input[3], overflow_checks))
    /\ UNCHANGED <<registers, pc, remainder, cmp, running, steps, run_from, twin,
                   overflow_checks, input>>

InitLower ==
    /\ input \in LowerInputs
    /\ output = NoLoad
    /\ overflow_checks \in BOOLEAN
    /\ program = <<>>
    /\ registers = Default.registers
    /\ pc = Default.pc
    /\ remainder = Default.remainder
    /\ cmp = Default.cmp
    /\ panicked = FALSE
    /\ running = FALSE
    /\ last = NoCommand
    /\ steps = 0
    /\ run_from = Default
    /\ twin = Returned(Default, FALSE)

NextLower == lower_load \/ repl_run \/ repl_run_loop

SpecLower == InitLower /\ [][NextLower]_vars

(***************************************************************************)
(* A survey of execute_once for the comparison flag: every opcode byte, in *)
(* each of a few register contexts, is stepped on two VMs that differ in   *)
(* cmp alone.  `steps` counts the candidates surveyed, the VM variables    *)
(* and `twin` hold the two VMs after their first call, and `output` keeps  *)
(* whether any candidate so far made them differ in more than cmp.         *)
(***************************************************************************)
NumContexts == 4
MaxProbeSteps == 3
OpcodeBytes == 256
NumCandidates == OpcodeBytes * NumContexts
\* registers 0 and 1 and the operand bytes of each context
FlagContexts ==
    << [r0 |-> 0, r1 |-> 0, ops |-> <<0, 1, 2>>],
       [r0 |-> 4, r1 |-> 2, ops |-> <<0, 1, 2>>],
       [r0 |-> 2, r1 |-> 9, ops |-> <<1, 0, 1>>],
       [r0 |-> -3, r1 |-> 5, ops |-> <<0, 0, 0>>] >>
\* the k-th candidate: the instruction twice, and the VM it is stepped on
CandidateContext(k) == FlagContexts[((k \div OpcodeBytes) % Len(FlagContexts)) + 1]
CandidateProgram(k) ==
    <<k % OpcodeBytes>> \o CandidateContext(k).ops
    \o <<k % OpcodeBytes>> \o CandidateContext(k).ops
CandidateVM(k, flag) ==
    [Default EXCEPT !.cmp = flag,
                    !.registers = [i \in 0..(REGISTERS - 1) |->
                                      IF i = 0 THEN CandidateContext(k).r0
                                      ELSE IF i = 1 THEN CandidateContext(k).r1 ELSE 0]]
\* what a call of execute_once leaves, cmp aside
Observation(r) == <<r.vm.pc, r.vm.registers, r.vm.remainder, r.done, r.panic>>
RECURSIVE Observed(_, _, _, _)
\* the observations of up to n calls of execute_once from m
Observed(m, prog, checks, n) ==
    IF n = 0 THEN <<>>
    ELSE LET seen(r) ==
                 <<Observation(r)>>
                 \o (IF r.done \/ r.panic THEN <<>> ELSE Observed(r.vm, prog, checks, n - 1))
         IN  seen(execute_once(m, prog, checks))
NoSurvey == [found |-> FALSE]

\* the next candidate is stepped on both VMs
probe ==
    /\ input[1] = "survey"
    /\ steps < NumCandidates
    /\ LET stepped(prog, a, b) ==
               /\ program' = prog
               /\ registers' = a.vm.registers
               /\ pc' = a.vm.pc
               /\ remainder' = a.vm.remainder
               /\ cmp' = a.vm.cmp
               /\ twin' = b
               /\ output' = [found |-> output.found
                                \/ Observed(CandidateVM(steps, FALSE), prog, overflow_checks,
                                            MaxProbeSteps)
                                   # Observed(CandidateVM(steps, TRUE), prog, overflow_checks,
                                              MaxProbeSteps)]
       IN  stepped(CandidateProgram(steps),
                   execute_once(CandidateVM(steps, FALSE), CandidateProgram(steps),
                                overflow_checks),
                   execute_once(CandidateVM(steps, TRUE), CandidateProgram(steps),
                                overflow_checks))
    /\ steps' = steps + 1
    /\ UNCHANGED <<panicked, running, last, run_from, overflow_checks, input>>

InitFlag ==
    /\ input = <<"survey">>
    /\ output = NoSurvey
    /\ overflow_checks \in BOOLEAN
    /\ program = <<>>
    /\ registers = Default.registers
    /\ pc = Default.pc
    /\ remainder = Default.remainder
    /\ cmp = Default.cmp
    /\ panicked = FALSE
    /\ running = FALSE
    /\ last = NoCommand
    /\ steps = 0
    /\ run_from = Default
    /\ twin = Returned(Default, FALSE)

NextFlag == probe

SpecFlag == InitFlag /\ [][NextFlag]_vars

(***************************************************************************)
(* The engine's contract, continued.                                       *)
(***************************************************************************)
\* the register the instruction last executed names as its destination
Written == IF last.op = "LOAD" THEN Operand(1) ELSE Operand(3)
\* what the last call of execute_once left alone
FrameOfStep ==
    last.by # "none" =>
        CASE last.op = "none" -> VMState = last.pre
          [] last.op \in {"LOAD", "ADD", "SUB", "MUL"} ->
                 /\ FlagsKept
                 /\ IF HasOperands(3) /\ ~last.panic THEN OthersKept(Written)
                    ELSE RegistersKept
          [] last.op = "DIV" ->
                 /\ cmp = last.pre.cmp
                 /\ IF HasOperands(3) /\ ~last.panic THEN OthersKept(Written)
                    ELSE RegistersKept /\ FlagsKept
          [] last.op \in {"EQ", "GT", "GTQ", "NOT"} ->
                 RegistersKept /\ remainder = last.pre.remainder
          [] OTHER -> RegistersKept /\ FlagsKept

\* C37: each instruction writes only its own part of the state: Load, Add,
\* Subtract and Multiply at most their destination register and pc; Divide its
\* destination register, remainder and pc; Equal, GreaterThan, GreaterThanEqual
\* and Not only cmp and pc; jumps and Halt only pc; a call at pc >= len(program)
\* nothing; and no call changes the program buffer.
C37_Frame == []FrameOfStep /\ [][program' = program]_vars
\* -7 / 2 has been stepped: register 2 and remainder have changed, cmp and the
\* other registers have not
C37_Witness ==
    /\ last.op = "DIV" /\ HasOperands(3) /\ ~last.panic
    /\ cmp = last.pre.cmp
    /\ Left = -7 /\ Right = 2
    /\ Written = 2 /\ registers[2] = -3 /\ last.pre.registers[2] = 0
    /\ remainder # last.pre.remainder
    /\ OthersKept(2)

\* the instruction last fetched needs more operand bytes than the buffer holds
TruncatedStepped == last.op # "none" /\ ~HasOperands(OperandBytes(last.op))

\* C35: the engine never reads the program buffer at an index >=
\* len(program): a step whose instruction's operand bytes run past the end of
\* the buffer panics instead of reporting Halted, and writes no register, nor
\* cmp, nor remainder; a step that returns has read only bytes of the buffer.
C35_TruncatedIsFatal ==
    /\ TruncatedStepped =>
          (last.panic /\ panicked /\ ~last.done /\ RegistersKept /\ FlagsKept)
    /\ (last.op # "none" /\ ~last.panic) => HasOperands(OperandBytes(last.op))
\* run() has panicked at a Load whose immediate is cut after its first byte
C35_Witness ==
    /\ TruncatedStepped
    /\ last.op = "LOAD" /\ last.by = "run"
    /\ Len(program) = last.pre.pc.lo + 3
    /\ Operand(1) = 2 /\ Operand(2) = 1
    /\ registers[0] = 7 /\ registers[1] = 2 /\ registers[2] = 0
    /\ panicked

RECURSIVE EncodedLength(_, _)
\* the total length of the encodings of the first k instructions of a list
EncodedLength(instrs, k) ==
    IF k = 0 THEN 0 ELSE EncodedLength(instrs, k - 1) + Len(to_bytes(instrs[k]))
\* the program is the encoding of the list in `input`, and no call so far has
\* panicked or gone past its last instruction
EncodedRan ==
    /\ input # <<>> /\ input[1] = "encoded"
    /\ ~panicked
    /\ steps <= Len(input[2])

\* C34: when the concatenated to_bytes encodings of Load, Add, Subtract,
\* Multiply, Divide, Equal, GreaterThan, GreaterThanEqual and Not instructions
\* (registers below 32, no zero divisor) are run, the k-th call fetches its
\* opcode at the first byte of the k-th encoding, decodes it as that
\* instruction's opcode, and leaves pc at the total length of the first k
\* encodings.
C34_LengthsAgree ==
    EncodedRan =>
        /\ pc = Wide(EncodedLength(input[2], steps))
        /\ steps >= 1 =>
              /\ last.pre.pc = Wide(EncodedLength(input[2], steps - 1))
              /\ last.op = OpcodeOf(input[2][steps][1])
\* Load(1, 2); GreaterThanEqual(31, 31); Divide(0, 1, 2) has been run to its end
C34_Witness ==
    /\ EncodedRan
    /\ input[2] = << <<"Load", 1, 2>>,
                     <<"GreaterThanEqual", REGISTERS - 1, REGISTERS - 1>>,
                     <<"Divide", 0, 1, 2>> >>
    /\ steps = 3
    /\ last.op = "DIV" /\ last.pre.pc = Wide(7)
    /\ pc = Wide(11) /\ cmp

(***************************************************************************)
(* The shells' contract.                                                   *)
(***************************************************************************)
\* the shell has just loaded a non-empty program text
JustLoaded == last.op = "load" /\ ~last.panic /\ output.len > 0
\* `.run` has returned or panicked
RunEnded == last.op = ".run" /\ ~running /\ last.turns > 0
\* `.run` is still going after MaxTurns turns
Hung == last.op = ".run" /\ running /\ last.turns = MaxTurns

\* C39: after any sequence of shell commands, loading new code (an expression
\* or an assembly line) leaves pc no further than the first byte of the newly
\* loaded code, so that the next `.run` executes it from its first instruction.
C39_LoadedCodeRuns == JustLoaded => (pc.hi = 0 /\ pc.lo <= output.start)

\* the expression compiled last was appended where pc stood and `.run` has run
\* it to a normal end, as has the VM with fresh registers, cmp and remainder
CompiledRan ==
    /\ RunEnded /\ last.done /\ ~panicked
    /\ twin.done
    /\ output.kind = "expr" /\ output.len > 0
    /\ output.at = Wide(output.start)
    /\ run_from.pc = output.at

\* C33: the value compiled code leaves in register 0 is the same for every
\* content of the register file, cmp and remainder it is started with.
C33_InitialStateIrrelevant == CompiledRan => registers[0] = twin.vm.registers[0]

\* an expression over literals and + - * / only
RECURSIVE Plain(_)
Plain(e) ==
    IF e[1] = "Int" THEN TRUE
    ELSE IF e[1] \in {"Add", "Sub", "Mul", "Div"} THEN Plain(e[2]) /\ Plain(e[3])
    ELSE FALSE
RECURSIVE Arith(_)
\* the arithmetic value of a plain expression, Div truncating; not ok when a
\* literal is outside 0..32767, a divisor is zero or a value leaves 32 bits
Arith(e) ==
    LET Value(x) == [ok |-> TRUE, val |-> x]
        Undefined == [ok |-> FALSE, val |-> 0]
        applied(tag, a, b) ==
            IF ~a.ok \/ ~b.ok THEN Undefined
            ELSE CASE tag = "Add" ->
                          IF AddOverflows(a.val, b.val) THEN Undefined
                          ELSE Value(a.val + b.val)
                   [] tag = "Sub" ->
                          IF SubOverflows(a.val, b.val) THEN Undefined
                          ELSE Value(a.val - b.val)
                   [] tag = "Mul" ->
                          IF MulOverflows(a.val, b.val) THEN Undefined
                          ELSE Value(a.val * b.val)
                   [] tag = "Div" ->
                          IF b.val = 0 \/ (a.val = I32Min /\ b.val = -1) THEN Undefined
                          ELSE Value(TruncDiv(a.val, b.val))
    IN  IF e[1] = "Int" THEN (IF e[2] >= 0 /\ e[2] <= I16Max THEN Value(e[2]) ELSE Undefined)
        ELSE applied(e[1], Arith(e[2]), Arith(e[3]))
\* an expression was lowered at its first register onto a fresh VM and run()
\* has ended
LoweredRan ==
    /\ RunEnded
    /\ input[1] = "lower"
    /\ output.kind = "expr" /\ output.len > 0
    /\ run_from = Default /\ Len(program) = output.len
\* the last register the expression's code names
LastNamed == input[3] + Need(input[2])
\* the expression needs more registers than are left from its first one
DeepRan == LoweredRan /\ LastNamed >= REGISTERS

PlainRan ==
    /\ RunEnded
    /\ output.kind = "expr" /\ output.len > 0
    /\ output.start = 0 /\ run_from = Default /\ Len(program) = output.len
    /\ Plain(output.expr)
    /\ Need(output.expr) < REGISTERS

\* C32: for every expression over literals in 0..32767 and + - * /, of
\* right-nesting depth below 32, without a zero divisor and with every
\* intermediate value within 32 bits, running the bytes of compile_expr(e, 0) on
\* a fresh VM ends at the end of the buffer, without a fault, with
\* registers[0] the arithmetic value of e (Div truncating).
C32_EndToEnd ==
    (PlainRan /\ Arith(output.expr).ok) =>
        /\ ~panicked /\ last.done
        /\ last.fetched = "none"
        /\ pc = Wide(Len(program))
        /\ last.executed = Size(output.expr)
        /\ registers[0] = Arith(output.expr).val
\* 32767 - (3 / 2) has been computed
C32_Witness ==
    /\ PlainRan
    /\ output.expr = <<"Sub", <<"Int", I16Max>>, <<"Div", <<"Int", 3>>, <<"Int", 2>> >> >>
    /\ registers[0] = I16Max - 1
    /\ registers[1] = 1
    /\ ~panicked

\* the most recent call of execute_once executed an instruction that is neither
\* a jump nor Halt, and returned
PlainTurn ==
    /\ last.turns >= 1
    /\ last.fetched \notin {"none", "HLT", "JMP", "JMPF", "JMPB"}
    /\ ~last.panic

\* C36: a step that executes neither a jump nor Halt strictly increases pc; so
\* a `.run` in which no jump is executed ends, Halted or with a fault, after
\* executing at most len(program) instructions, and a `.run` that does not end
\* has executed a jump.
C36_JumpFreeTerminates ==
    /\ PlainTurn => (pc.hi = 0 /\ pc.lo > last.pre.pc.lo)
    /\ (last.op = ".run" /\ ~last.jumped) =>
          /\ last.executed <= Len(program)
          /\ last.turns <= Len(program) + 1
          /\ ~Hung
    /\ Hung => last.jumped
\* 'NOT' alone has been run: one instruction executed, the bound met exactly
C36_Witness ==
    /\ RunEnded /\ ~last.jumped /\ last.done
    /\ Len(program) = 1 /\ run_from = Default
    /\ last.executed = 1 /\ last.turns = 2
    /\ cmp /\ pc = Wide(1)
\* 'JMP $1' on a fresh VM jumps to offset 0 for ever
HungByJump ==
    /\ Hung
    /\ last.jumped /\ last.fetched = "JMP"
    /\ Len(program) = 2
    /\ registers[1] = 0
    /\ pc = Wide(0)

(***************************************************************************)
(* The comparison flag.                                                    *)
(***************************************************************************)
\* every candidate has been stepped
Surveyed == input[1] = "survey" /\ steps = NumCandidates
\* no call of execute_once so far has told the two VMs apart, cmp aside
CmpNeverRead ==
    input[1] = "survey" =>
        /\ ~output.found
        /\ steps > 0 =>
              (twin.vm.pc = pc /\ twin.vm.registers = registers
               /\ twin.vm.remainder = remainder)

\* C38: the comparison flag is read by control flow: among the instructions
\* there is one that takes two VMs differing in cmp alone to different pc or
\* register values.
C38_CmpReadByControlFlow == Surveyed => output.found

====
